---- MODULE Spec2Model ----
(***************************************************************************)
(* chunk-upload: the worker pool (utils/workerPool.ts), the per-file       *)
(* orchestrator chunkFile (chunkFile.ts) and the batch and stream drivers  *)
(* (chunkUpload.ts, chunkUploadStream.ts, chunkFileStream.ts).             *)
(*                                                                         *)
(* The main thread is a JavaScript event loop: one handler (a call by the  *)
(* client, a worker message, a worker error event, a timer) runs to        *)
(* completion together with the promise reactions it queues, and only then *)
(* the next event is taken.  The execution units run concurrently and talk *)
(* to the main thread by messages only.                                    *)
(***************************************************************************)
EXTENDS Integers, Sequences, FiniteSets, TLC

VARIABLES
    files,        \* input: the File objects, <<[size, isFile, valid, clonable]>>
    opts,         \* input: [chunkSize, workerCount, adaptive, retry]
    userCancel,   \* input: the user callbacks that call cancel() when invoked
    hostUnits,    \* input: how many Worker objects the host lets createWorker build
    mode,         \* input: who calls: "client" (chunkFile itself), "batch", "stream"
    cancelled,    \* cancelController: token id -> cancelled flag
    poolMax,      \* globalWorkerPool: NoPool, or the pool's maxWorkers
    poolId,       \* history: how many WorkerPool objects have been constructed
    workers,      \* WorkerPool.workers: <<[isBusy, currentTask]>>
    taskQueue,    \* WorkerPool.taskQueue: <<task id>>
    inbox,        \* per unit: the requests posted to it and not yet answered
    tasks,        \* every WorkerTask ever submitted, with its callback counters
    sess,         \* every chunkFile call: the closure state of its promise
    cbLog,        \* the invocations of the user's callbacks (but onProgress), in order
    errEvents,    \* number of unit-level error events so far
    pc,           \* the driver's position
    fi,           \* the driver's loop index into files (1-based)
    attempt,      \* withRetry's attempt counter for the current file
    fileCount,    \* processFiles: files still to complete
    results,      \* processFiles: the accumulated FileInfo list
    stream,       \* chunkFileStream: the locals of the call for the current file
    drvResult,    \* the driver's promise: "pending", "resolved", or what it rejected with
    cancelAt,     \* history: where the driver was when its token was cancelled
    poolOps,      \* history: the client's own calls of the pool's functions, with
                  \* what the pool's getters return after each
    hashMap,      \* createChunk.ts: the memo of the main thread, [keys, fresh]: the
                  \* ArrayBuffers it holds, oldest first, and the next buffer's identity
    call,         \* a direct call of one of the library's functions: its arguments
    ret,          \* what that call returned, NoCall before it has returned
    changes       \* selector mode: the change events of the input element so far

inputVars == <<files, opts, userCancel, hostUnits, mode>>
poolVars  == <<poolMax, poolId, workers, taskQueue, inbox, tasks>>
drvVars   == <<pc, fi, attempt, fileCount, results, stream, drvResult>>
callVars  == <<call, ret>>
quietVars == <<poolOps, call, ret, hashMap, changes>>
vars == <<files, opts, userCancel, hostUnits, mode, cancelled, poolMax, workers,
          taskQueue, inbox, tasks, sess, cbLog, errEvents, pc, fi, attempt,
          fileCount, results, stream, drvResult, cancelAt, poolId, poolOps,
          hashMap, call, ret, changes>>

----------------------------------------------------------------------------
(* Bounds of the model and constants of the program *)

MaxCalls  == 2      \* chunkFile calls a client makes in the orchestrator specification
MaxErrors == 1      \* unit-level error events
MaxFiles  == 2      \* files of one batch invocation
MaxRetries == 1     \* retry.maxRetries when a retry config is given
MaxOps == 4         \* calls of the pool's functions and of chunkFile by a pool client
MaxRetriesArg == 4  \* the largest maxRetries given to withRetry directly
MaxChanges == 2     \* change events of the input element in selector mode
MaxBytes == 6       \* the largest file given to createChunk directly
MaxIndex == 3       \* the largest chunk index given to createChunk directly
MaxChunkBytes == 3  \* the largest chunk size given to createChunk directly
MaxInserts == 103   \* the createChunk calls made one after the other on one memo
MaxChunks == 7      \* the largest chunk count whose ranges are computed directly

MiB == 1024 * 1024
DefaultChunkSize == 5 * MiB
MAX_CACHE_SIZE == 100
DefaultMaxRetries == 3       \* DEFAULT_RETRY_CONFIG.maxRetries
HardwareConcurrency == 2     \* navigator.hardwareConcurrency of the host
Undefined == 0 - 1           \* an option that is not given
NoTask == 0
NoPool == 0 - 1
DriverToken == 1             \* the token chunkUpload creates for an invocation

Min(a, b) == IF a < b THEN a ELSE b
Max(a, b) == IF a > b THEN a ELSE b
\* Math.ceil(a / b) for a >= 0, b > 0
Ceil(a, b) == (a + b - 1) \div b

RECURSIVE SumSeq(_)
SumSeq(s) == IF s = <<>> THEN 0 ELSE Head(s) + SumSeq(Tail(s))

\* the sequence of n copies of x
RECURSIVE Repeat(_, _)
Repeat(x, n) == IF n <= 0 THEN <<>> ELSE Append(Repeat(x, n - 1), x)

----------------------------------------------------------------------------
(* Chunk Strategy *)

\* the tiers with their upper bounds taken in
calculateChunkStrategyInclusive(fileSize, maxWorkers) ==
    LET maxWorkerCount == IF maxWorkers = Undefined \/ maxWorkers = 0
                          THEN HardwareConcurrency ELSE maxWorkers
    IN  IF fileSize <= 10 * MiB
        THEN [chunkSize |-> 1 * MiB, workerCount |-> Min(2, maxWorkerCount)]
        ELSE IF fileSize <= 100 * MiB
        THEN [chunkSize |-> 5 * MiB, workerCount |-> Min(4, maxWorkerCount)]
        ELSE IF fileSize <= 1024 * MiB
        THEN [chunkSize |-> 10 * MiB, workerCount |-> Min(6, maxWorkerCount)]
        ELSE [chunkSize |-> 20 * MiB, workerCount |-> maxWorkerCount]

calculateChunkStrategy(fileSize, maxWorkers) ==
    LET maxWorkerCount == IF maxWorkers = Undefined \/ maxWorkers = 0
                          THEN HardwareConcurrency ELSE maxWorkers
    IN  IF fileSize < 10 * MiB
        THEN [chunkSize |-> 1 * MiB, workerCount |-> Min(2, maxWorkerCount)]
        ELSE IF fileSize < 100 * MiB
        THEN [chunkSize |-> 5 * MiB, workerCount |-> Min(4, maxWorkerCount)]
        ELSE IF fileSize < 1024 * MiB
        THEN [chunkSize |-> 10 * MiB, workerCount |-> Min(6, maxWorkerCount)]
        ELSE [chunkSize |-> 20 * MiB, workerCount |-> maxWorkerCount]

\* the count of chunks itself when it is under the cap
calculateWorkerCountNoFloor(chunkCount, maxWorkers) ==
    LET maxWorkerCount == IF maxWorkers = Undefined \/ maxWorkers = 0
                          THEN HardwareConcurrency ELSE maxWorkers
    IN  IF chunkCount < maxWorkerCount THEN chunkCount ELSE maxWorkerCount

calculateWorkerCount(chunkCount, maxWorkers) ==
    LET maxWorkerCount == IF maxWorkers = Undefined \/ maxWorkers = 0
                          THEN HardwareConcurrency ELSE maxWorkers
    IN  IF chunkCount < maxWorkerCount THEN Max(1, chunkCount) ELSE maxWorkerCount

----------------------------------------------------------------------------
(* File Validator: validateFile(file, config) with the config spelled out.  A
   file is its type, major and minor part, and its size; an entry of allowedTypes
   or blockedTypes is a type whose parts may be "*"; maxSize and minSize are
   Undefined or a size; validate is "none" or what the predicate returns ("true",
   "false", or "message", a string).  The result tells the failure's type, the
   check that made it and whether the predicate was called. *)

NoValidation == [given |-> FALSE]

MimeType(major, minor) == [major |-> major, minor |-> minor]

\* type.includes('*') ? file.type.startsWith(`${baseType}/`) : file.type === type
typeMatches(type, fileType) ==
    IF type.major = "*" \/ type.minor = "*"
    THEN fileType.major = type.major
    ELSE fileType = type

some(types, fileType) == \E i \in 1..Len(types) : typeMatches(types[i], fileType)

invalidFile(check, called) == [type |-> "invalid-file", check |-> check, called |-> called]

\* the predicate called before the other checks, its result used after them
validateFileConfigEager(file, config) ==
    IF ~config.given THEN [type |-> "null", check |-> "none", called |-> FALSE]
    ELSE IF Len(config.allowedTypes) > 0 /\ ~some(config.allowedTypes, file.type)
    THEN invalidFile("allowedTypes", config.validate # "none")
    ELSE IF Len(config.blockedTypes) > 0 /\ some(config.blockedTypes, file.type)
    THEN invalidFile("blockedTypes", config.validate # "none")
    ELSE IF config.maxSize # Undefined /\ file.size > config.maxSize
    THEN invalidFile("maxSize", config.validate # "none")
    ELSE IF config.minSize # Undefined /\ file.size < config.minSize
    THEN invalidFile("minSize", config.validate # "none")
    ELSE IF config.validate # "none" /\ config.validate # "true"
    THEN invalidFile("validate", TRUE)
    ELSE [type |-> "null", check |-> "none", called |-> config.validate # "none"]

validateFileConfig(file, config) ==
    IF ~config.given THEN [type |-> "null", check |-> "none", called |-> FALSE]
    ELSE IF Len(config.allowedTypes) > 0 /\ ~some(config.allowedTypes, file.type)
    THEN invalidFile("allowedTypes", FALSE)
    ELSE IF Len(config.blockedTypes) > 0 /\ some(config.blockedTypes, file.type)
    THEN invalidFile("blockedTypes", FALSE)
    ELSE IF config.maxSize # Undefined /\ file.size > config.maxSize
    THEN invalidFile("maxSize", FALSE)
    ELSE IF config.minSize # Undefined /\ file.size < config.minSize
    THEN invalidFile("minSize", FALSE)
    ELSE IF config.validate # "none" /\ config.validate # "true"
    THEN invalidFile("validate", TRUE)
    ELSE [type |-> "null", check |-> "none", called |-> config.validate # "none"]

----------------------------------------------------------------------------
(* Retry Wrapper: withRetry(fn, config).  outcomes[i] is what the i-th call of fn
   does, "ok" (it resolves, with the value i) or "fail" (it rejects, with the
   error i); the result tells how many times fn was called and whether withRetry
   returned or threw, and what. *)

NoConfig == [given |-> FALSE]
RetryConfig(maxRetries) == [given |-> TRUE, maxRetries |-> maxRetries]

\* for (let attempt = 0; attempt <= maxRetries; attempt++) { ... } throw lastError;
\* a is the loop's attempt
RECURSIVE retryLoop(_, _, _)
retryLoop(outcomes, maxRetries, a) ==
    IF a > maxRetries
    THEN [calls |-> a, how |-> "throw", what |-> Undefined]
    ELSE IF outcomes[a + 1] = "ok"
    THEN [calls |-> a + 1, how |-> "return", what |-> a + 1]
    ELSE IF a = maxRetries
    THEN [calls |-> a + 1, how |-> "throw", what |-> a + 1]
    ELSE retryLoop(outcomes, maxRetries, a + 1)

\* withRetry whose loop ends one attempt early
withRetryOneShort(outcomes, config) ==
    retryLoop(outcomes,
              (IF config.given THEN config.maxRetries ELSE DefaultMaxRetries) - 1, 0)

withRetry(outcomes, config) ==
    retryLoop(outcomes,
              IF config.given THEN config.maxRetries ELSE DefaultMaxRetries, 0)

----------------------------------------------------------------------------
(* Chunk Builder: the memo of hashes, keyed by the ArrayBuffer read.  Every read
   makes a new ArrayBuffer, so hashMap.has(fileBuffer) is false and every chunk
   built adds a key. *)

NoCall == [fn |-> "none"]
EmptyCache == [keys |-> <<>>, fresh |-> 1]

\* the entries over the capacity taken from the newest end
cleanupCacheNewest(h) ==
    IF Len(h.keys) > MAX_CACHE_SIZE
    THEN [h EXCEPT !.keys = SubSeq(@, 1, MAX_CACHE_SIZE)]
    ELSE h

cleanupCache(h) ==
    IF Len(h.keys) > MAX_CACHE_SIZE
    THEN [h EXCEPT !.keys = SubSeq(@, Len(@) - MAX_CACHE_SIZE + 1, Len(@))]
    ELSE h

\* hashMap.set(fileBuffer, hash); cleanupCache()
hashMapSet(h) == cleanupCache([keys |-> Append(h.keys, h.fresh), fresh |-> h.fresh + 1])

clearHashCache(h) == [h EXCEPT !.keys = <<>>]
getCacheSize(h) == Len(h.keys)

----------------------------------------------------------------------------
(* Chunk Builder: the byte bounds of chunk `index` *)

\* the end not held to the file's size
createChunkNoClamp(size, index, chunkSize) ==
    LET start == index * chunkSize
    IN  [index |-> index, start |-> start, end |-> start + chunkSize]

createChunk(size, index, chunkSize) ==
    LET start == index * chunkSize
    IN  [index |-> index, start |-> start, end |-> Min(start + chunkSize, size)]

\* what work.ts computes for the request {file, CHUNK_SIZE, startIndex, endIndex}
RECURSIVE workerChunks(_, _, _, _)
workerChunks(size, chunkSize, startIndex, endIndex) ==
    IF startIndex >= endIndex THEN <<>>
    ELSE <<createChunk(size, startIndex, chunkSize)>>
         \o workerChunks(size, chunkSize, startIndex + 1, endIndex)

----------------------------------------------------------------------------
(* The state the main thread's handlers read and write, as one record, so  *)
(* that a handler and everything it calls compose into one step.  `exc`    *)
(* is the exception a callback has thrown and nobody has caught yet.       *)

World ==
    [cancelled |-> cancelled, poolMax |-> poolMax, poolId |-> poolId,
     workers |-> workers,
     taskQueue |-> taskQueue, inbox |-> inbox, tasks |-> tasks, sess |-> sess,
     cbLog |-> cbLog, exc |-> FALSE]

Commit(w) ==
    /\ cancelled' = w.cancelled
    /\ poolMax' = w.poolMax
    /\ poolId' = w.poolId
    /\ workers' = w.workers
    /\ taskQueue' = w.taskQueue
    /\ inbox' = w.inbox
    /\ tasks' = w.tasks
    /\ sess' = w.sess
    /\ cbLog' = w.cbLog

----------------------------------------------------------------------------
(* Cancellation Token *)

\* a token that never says it is cancelled
isCancelledNever(w, tok) == FALSE

isCancelled(w, tok) == w.cancelled[tok]

\* a submitted task none of whose callbacks has been invoked yet
outstanding(w, t) == w.tasks[t].resolveCalls + w.tasks[t].rejectCalls = 0

\* cancel() sets the flag.  History, for the claims about cancellation: the calls
\* that were unsettled with a task outstanding when their token was cancelled.
RECURSIVE markOutstanding(_, _, _)
markOutstanding(w, tok, s) ==
    IF s > Len(w.sess) THEN w
    ELSE IF /\ w.sess[s].tok = tok
            /\ w.sess[s].outcome = "pending"
            /\ \E t \in 1..Len(w.tasks) : w.tasks[t].sess = s /\ outstanding(w, t)
    THEN markOutstanding([w EXCEPT !.sess[s].cancelledOutstanding = TRUE], tok, s + 1)
    ELSE markOutstanding(w, tok, s + 1)

cancel(w, tok) ==
    IF w.cancelled[tok] THEN w
    ELSE markOutstanding([w EXCEPT !.cancelled[tok] = TRUE], tok, 1)

\* a user callback of kind `tag` runs: it calls cancel() if the user wrote it so
userCallback(w, tok, tag) == IF tag \in userCancel THEN cancel(w, tok) ELSE w

\* History: the step that takes the state to w cancels the driver's token while
\* the driver is in `phase`, with k files completed and file `next` the next
NotCancelled == [phase |-> "none", k |-> 0, next |-> 0]

noteCancel(w, phase, k, next) ==
    cancelAt' = IF ~cancelled[DriverToken] /\ w.cancelled[DriverToken]
                THEN [phase |-> phase, k |-> k, next |-> next]
                ELSE cancelAt

----------------------------------------------------------------------------
(* File Orchestrator: the closures of one chunkFile call, session s *)

\* Math.min(100, Math.round((loaded / total) * 100))
percentage(loaded, total) ==
    LET q == (loaded * 100) \div total
        r == (loaded * 100) % total
    IN  Min(100, IF 2 * r >= total THEN q + 1 ELSE q)

\* the promise's resolve / reject: only the first call settles it
settle(w, s, outcome, kind) ==
    IF w.sess[s].outcome = "pending"
    THEN [w EXCEPT !.sess[s].outcome = outcome, !.sess[s].kind = kind,
                   !.sess[s].cancelledAtSettle = isCancelled(w, w.sess[s].tok)]
    ELSE w

\* an entry of cbLog: callback cb invoked for file f
Callback(cb, f, kind, src, isDone, res, afterCancel) ==
    [cb |-> cb, file |-> f, kind |-> kind, src |-> src, isDone |-> isDone,
     results |-> res, afterCancel |-> afterCancel]

\* chunkFile leaving the error callback out
onErrorNotCalled(w, s, kind) == w

\* the user's onError as chunkFile calls it
onError(w, s, kind) ==
    userCallback(
        [w EXCEPT !.cbLog = Append(@, Callback("error", w.sess[s].file, kind,
                                               "chunkFile", FALSE, <<>>,
                                               isCancelled(w, w.sess[s].tok))),
                  !.sess[s].errCb = @ + 1],
        w.sess[s].tok, "error")

updateProgress(w, s, processedChunks, loadedBytes) ==
    LET S == w.sess[s]
        size == files[S.file].size
        snap == [loaded |-> loadedBytes, total |-> size,
                 percentage |-> percentage(loadedBytes, size),
                 processedChunks |-> processedChunks, totalChunks |-> S.n,
                 afterSettle |-> S.outcome # "pending",
                 afterCancel |-> isCancelled(w, S.tok)]
        w1 == [w EXCEPT !.sess[s].prog = Append(@, snap)]
        w2 == userCallback(w1, S.tok, "progress")
    IN  IF processedChunks = S.n THEN userCallback(w2, S.tok, "complete") ELSE w2

\* handleError without its hasError guard
handleErrorUnguarded(w, s, kind) ==
    settle(onError([w EXCEPT !.sess[s].hasError = TRUE], s, kind), s, "rejected", kind)

handleError(w, s, kind) ==
    IF w.sess[s].hasError THEN w
    ELSE settle(onError([w EXCEPT !.sess[s].hasError = TRUE], s, kind),
                s, "rejected", kind)

\* taskResolve / taskReject of the task promise in slot i of the session
taskResolve(w, s, i, chunks) ==
    IF w.sess[s].tstate[i] = "pending"
    THEN [w EXCEPT !.sess[s].tstate[i] = "resolved", !.sess[s].tdata[i] = chunks]
    ELSE w

taskReject(w, s, i) ==
    IF w.sess[s].tstate[i] = "pending"
    THEN [w EXCEPT !.sess[s].tstate[i] = "rejected"]
    ELSE w

\* WorkerTask.resolve as chunkFile builds it.  data = [isArray, chunks]
taskResolveCallback(w, t, data) ==
    LET s == w.tasks[t].sess
        S == w.sess[s]
        w0 == [w EXCEPT !.tasks[t].resolveCalls = @ + 1]
    IN  IF S.hasError \/ isCancelled(w, S.tok) THEN w0
        ELSE IF ~data.isArray THEN [w0 EXCEPT !.exc = TRUE]  \* chunks.forEach is not a function
        ELSE LET bytes == SumSeq([j \in 1..Len(data.chunks) |->
                                    data.chunks[j].end - data.chunks[j].start])
                 w1 == [w0 EXCEPT !.sess[s].processedBytes = @ + bytes,
                                  !.sess[s].finishCount = @ + 1]
                 w2 == updateProgress(w1, s, w1.sess[s].finishCount,
                                      w1.sess[s].processedBytes)
             IN  taskResolve(w2, s, w.tasks[t].slot, data.chunks)

\* WorkerTask.reject as chunkFile builds it
taskRejectCallback(w, t) ==
    LET s == w.tasks[t].sess
        S == w.sess[s]
        w0 == [w EXCEPT !.tasks[t].rejectCalls = @ + 1]
    IN  IF isCancelled(w, S.tok) THEN taskReject(w0, s, w.tasks[t].slot)
        ELSE taskReject(handleError(w0, s, "worker-error"), s, w.tasks[t].slot)

----------------------------------------------------------------------------
(* Execution Pool *)

Idle == [isBusy |-> FALSE, currentTask |-> NoTask]

\* postMessage succeeds iff the File can be structured-cloned
postable(w, t) == files[w.sess[w.tasks[t].sess].file].clonable

\* a released unit that stays Idle whatever waits in the queue
processNextTaskStaysIdle(w, u) == w

RECURSIVE assignTask(_, _, _)
\* processNextTask taking the newest queued task: taskQueue.pop()
processNextTaskNewest(w, u) ==
    IF w.taskQueue = <<>> THEN w
    ELSE assignTask([w EXCEPT !.taskQueue = SubSeq(@, 1, Len(@) - 1)], u,
                    w.taskQueue[Len(w.taskQueue)])

processNextTask(w, u) ==
    IF w.taskQueue = <<>> THEN w
    ELSE assignTask([w EXCEPT !.taskQueue = Tail(@)], u, Head(w.taskQueue))

\* tasks[t].seq remembers the how-manieth assignment of the pool this one is
assignTask(w, u, t) ==
    LET w1 == [w EXCEPT !.workers[u] = [isBusy |-> TRUE, currentTask |-> t],
                        !.tasks[t].seq = 1 + Cardinality({t2 \in 1..Len(w.tasks) :
                                                            w.tasks[t2].seq # 0})]
    IN  IF postable(w, t)
        THEN [w1 EXCEPT !.inbox[u] = Append(@, t), !.tasks[t].posted = @ + 1]
        ELSE processNextTask(
                [taskRejectCallback(w1, t) EXCEPT !.workers[u] = Idle], u)

initializeWorkers(w) ==
    IF Len(w.workers) > 0 THEN w
    ELSE LET n == Min(w.poolMax, hostUnits)
         IN  [w EXCEPT !.workers = Repeat(Idle, n), !.inbox = Repeat(<<>>, n)]

\* this.workers.find(w => !w.isBusy): the first idle unit, 0 if none
findIdle(ws) ==
    LET idle == {i \in 1..Len(ws) : ~ws[i].isBusy}
    IN  IF idle = {} THEN 0 ELSE CHOOSE i \in idle : \A j \in idle : i <= j

submitTask(w, t) ==
    LET w1 == initializeWorkers(w)
        u == findIdle(w1.workers)
    IN  IF u # 0 THEN assignTask(w1, u, t)
        ELSE [w1 EXCEPT !.taskQueue = Append(@, t)]

\* data = [kind, error, chunks]: kind "ok" is {success: true, data: chunks}, "fail"
\* is {success: false, error} with error.type = data.error, "array" is the bare
\* array, "other" is any other value.  A failure becomes new Error(message): the
\* type stays behind, tasks[t].unitError remembers it.
\* handleWorkerMessage that takes only {success: true, data} for a success
handleWorkerMessageStrict(w, u, data) ==
    LET t == w.workers[u].currentTask
    IN  IF t = NoTask THEN w
        ELSE LET r == IF data.kind # "ok"
                      THEN taskRejectCallback(
                              [w EXCEPT !.tasks[t].unitError = data.error], t)
                      ELSE taskResolveCallback(w, t,
                              [isArray |-> TRUE, chunks |-> data.chunks])
             IN  processNextTask([r EXCEPT !.workers[u] = Idle], u)

handleWorkerMessage(w, u, data) ==
    LET t == w.workers[u].currentTask
    IN  IF t = NoTask THEN w
        ELSE LET r == IF data.kind = "fail"
                      THEN taskRejectCallback(
                              [w EXCEPT !.tasks[t].unitError = data.error], t)
                      ELSE taskResolveCallback(w, t,
                              [isArray |-> data.kind \in {"ok", "array"},
                               chunks |-> data.chunks])
                 w1 == IF r.exc  \* catch (error) { task.reject(...) }
                       THEN taskRejectCallback([r EXCEPT !.exc = FALSE], t)
                       ELSE r
             IN  processNextTask([w1 EXCEPT !.workers[u] = Idle], u)

\* handleWorkerError that rejects the task and leaves the unit as it was
handleWorkerErrorKeepsBusy(w, u) ==
    LET t == w.workers[u].currentTask
    IN  IF t # NoTask THEN taskRejectCallback(w, t) ELSE w

handleWorkerError(w, u) ==
    LET t == w.workers[u].currentTask
        w1 == IF t # NoTask
              THEN [taskRejectCallback(w, t) EXCEPT !.workers[u] = Idle]
              ELSE w
    IN  processNextTask(w1, u)

\* terminateAll that rejects the tasks it drops, the tasks from t on
RECURSIVE rejectDropped(_, _)
rejectDropped(w, t) ==
    IF t > Len(w.tasks) THEN w
    ELSE rejectDropped(IF outstanding(w, t) THEN taskRejectCallback(w, t) ELSE w, t + 1)

terminateAllRejects(w) ==
    [rejectDropped(w, 1) EXCEPT !.workers = <<>>, !.taskQueue = <<>>, !.inbox = <<>>]

\* terminateAll that forgets to empty the queue
terminateAllKeepsQueue(w) == [w EXCEPT !.workers = <<>>, !.inbox = <<>>]

terminateAll(w) == [w EXCEPT !.workers = <<>>, !.taskQueue = <<>>, !.inbox = <<>>]

getWorkerCount(w) == Len(w.workers)
getQueueLength(w) == Len(w.taskQueue)
getIdleWorkerCount(w) == Cardinality({i \in 1..Len(w.workers) : ~w.workers[i].isBusy})

\* getWorkerPool that builds a new pool when asked for another maxWorkers
getWorkerPoolHonoursArg(w, maxWorkers) ==
    LET max == IF maxWorkers = Undefined THEN HardwareConcurrency ELSE maxWorkers
    IN  IF w.poolMax = max THEN w
        ELSE [w EXCEPT !.poolMax = max, !.poolId = @ + 1, !.workers = <<>>,
                       !.taskQueue = <<>>, !.inbox = <<>>]

getWorkerPool(w, maxWorkers) ==
    IF w.poolMax = NoPool
    THEN [w EXCEPT !.poolMax = IF maxWorkers = Undefined
                                THEN HardwareConcurrency ELSE maxWorkers,
                   !.poolId = @ + 1]
    ELSE w

resetWorkerPool(w) ==
    IF w.poolMax # NoPool THEN [terminateAll(w) EXCEPT !.poolMax = NoPool] ELSE w

----------------------------------------------------------------------------
(* File Orchestrator: chunkFile *)

newSession(f, tok) ==
    [file |-> f, tok |-> tok, cs |-> 0, n |-> 0, k |-> 0, nt |-> 0,
     tstate |-> <<>>, tdata |-> <<>>, hasError |-> FALSE, finishCount |-> 0,
     processedBytes |-> 0, pa |-> "none", outcome |-> "pending", kind |-> "none",
     result |-> <<>>, errCb |-> 0, prog |-> <<>>, submitted |-> 0,
     cancelledOutstanding |-> FALSE, cancelledAtSettle |-> FALSE]

newTask(s, slot, startIndex, endIndex) ==
    [sess |-> s, slot |-> slot, startIndex |-> startIndex, endIndex |-> endIndex,
     resolveCalls |-> 0, rejectCalls |-> 0, posted |-> 0, unitError |-> "none",
     seq |-> 0]

\* for (let i = 0; i < finalWorkerCount; i++) { ... }
RECURSIVE submitRanges(_, _, _, _)
submitRanges(w, s, i, workerCount) ==
    IF i >= workerCount THEN w
    ELSE LET S == w.sess[s]
             startIndex == i * S.k
             endIndex == Min(startIndex + S.k, S.n)
         IN  IF startIndex >= endIndex THEN submitRanges(w, s, i + 1, workerCount)
             ELSE LET slot == S.nt + 1
                      w1 == [w EXCEPT !.sess[s].nt = slot,
                                      !.sess[s].tstate = Append(@, "pending"),
                                      !.sess[s].tdata = Append(@, <<>>)]
                      t == Len(w1.tasks) + 1
                      w2 == [w1 EXCEPT !.tasks = Append(@, newTask(s, slot, startIndex, endIndex)),
                                       !.sess[s].submitted = @ + 1]
                  IN  IF isCancelled(w1, S.tok)
                      THEN submitRanges(taskReject(w1, s, slot), s, i + 1, workerCount)
                      ELSE submitRanges(submitTask(w2, t), s, i + 1, workerCount)

\* the ranges of the loop alone, from range i on: for (let i = 0; i < finalWorkerCount;
\* i++) with workerChunkCount = Math.ceil(finalChunkCount / finalWorkerCount);
\* taskRangesNoSkip is the loop without its `continue`
RECURSIVE taskRangesFrom(_, _, _, _)
taskRangesFrom(i, finalChunkCount, finalWorkerCount, skip) ==
    IF i >= finalWorkerCount THEN <<>>
    ELSE LET workerChunkCount == Ceil(finalChunkCount, finalWorkerCount)
             startIndex == i * workerChunkCount
             endIndex == Min(startIndex + workerChunkCount, finalChunkCount)
             rest == taskRangesFrom(i + 1, finalChunkCount, finalWorkerCount, skip)
         IN  IF skip /\ startIndex >= endIndex THEN rest
             ELSE <<[startIndex |-> startIndex, endIndex |-> endIndex]>> \o rest

taskRangesNoSkip(finalChunkCount, finalWorkerCount) ==
    taskRangesFrom(0, finalChunkCount, finalWorkerCount, FALSE)

taskRanges(finalChunkCount, finalWorkerCount) ==
    taskRangesFrom(0, finalChunkCount, finalWorkerCount, TRUE)

\* result[startIndex + chunkIndex] = chunk, for every task in task order: a later
\* write to the same position wins.  The array is the sequence of its elements,
\* element p + 1 being result[p]; Hole is a position nothing was written to.
Hole == [index |-> Undefined, start |-> 0, end |-> 0]

mergeResult(S) ==
    LET writers(p) == {i \in 1..S.nt : /\ p - (i - 1) * S.k >= 0
                                       /\ p - (i - 1) * S.k < Len(S.tdata[i])}
        positions == UNION {{(i - 1) * S.k + j - 1 : j \in 1..Len(S.tdata[i])} :
                            i \in 1..S.nt}
        length == IF positions = {} THEN 0
                  ELSE 1 + CHOOSE p \in positions : \A q \in positions : q <= p
        last(p) == CHOOSE i \in writers(p) : \A j \in writers(p) : j <= i
        element(p) == IF writers(p) = {} THEN Hole
                      ELSE S.tdata[last(p)][p - (last(p) - 1) * S.k + 1]
        RECURSIVE array(_)
        array(p) == IF p >= length THEN <<>> ELSE <<element(p)>> \o array(p + 1)
    IN  array(0)

\* Promise.all(tasks).then(...)
thenBranch(w, s) ==
    LET S == w.sess[s]
    IN  IF S.hasError \/ isCancelled(w, S.tok)
        THEN IF isCancelled(w, S.tok) THEN settle(w, s, "rejected", "cancelled") ELSE w
        ELSE settle(updateProgress([w EXCEPT !.sess[s].result = mergeResult(S)],
                                   s, S.n, files[S.file].size),
                    s, "resolved", "none")

\* Promise.all(tasks).catch(...)
catchBranch(w, s) ==
    LET S == w.sess[s]
    IN  IF isCancelled(w, S.tok) THEN settle(w, s, "rejected", "cancelled")
        ELSE IF ~S.hasError THEN handleError(w, s, "worker-error")
        ELSE w

\* the reaction of Promise.all for session s, once the task promises allow it
promiseAll(w, s) ==
    LET S == w.sess[s]
    IN  IF S.pa # "pending" THEN w
        ELSE IF \E i \in 1..S.nt : S.tstate[i] = "rejected"
        THEN catchBranch([w EXCEPT !.sess[s].pa = "rejected"], s)
        ELSE IF \A i \in 1..S.nt : S.tstate[i] = "resolved"
        THEN thenBranch([w EXCEPT !.sess[s].pa = "fulfilled"], s)
        ELSE w

\* the promise reactions queued by a handler run before the next event
RECURSIVE runMicrotasks(_, _)
runMicrotasks(w, s) ==
    IF s > Len(w.sess) THEN w ELSE runMicrotasks(promiseAll(w, s), s + 1)

chunkFile(w, f, tok, chunkSize, workerCount, adaptiveChunkSize) ==
    LET s == Len(w.sess) + 1
        w0 == [w EXCEPT !.sess = Append(@, newSession(f, tok))]
        size == files[f].size
        initialChunkSize == IF chunkSize = Undefined \/ chunkSize = 0
                            THEN DefaultChunkSize ELSE chunkSize
        chunkCount == Ceil(size, initialChunkSize)
        strategy == calculateChunkStrategy(size, workerCount)
        auto == adaptiveChunkSize /\ chunkSize = Undefined
        finalChunkSize == IF auto THEN strategy.chunkSize ELSE initialChunkSize
        finalWorkerCount == IF auto THEN strategy.workerCount
                            ELSE IF workerCount = Undefined
                            THEN calculateWorkerCount(chunkCount, Undefined)
                            ELSE workerCount
        finalChunkCount == Ceil(size, finalChunkSize)
        \* Math.ceil(n / 0) is Infinity; it is not used, as no range is made then
        workerChunkCount == IF finalWorkerCount = 0 THEN 0
                            ELSE Ceil(finalChunkCount, finalWorkerCount)
    IN  IF ~files[f].isFile
        THEN settle(onError(w0, s, "invalid-file"), s, "rejected", "invalid-file")
        ELSE IF chunkCount = 0 THEN settle(w0, s, "resolved", "none")
        ELSE IF isCancelled(w0, tok) THEN settle(w0, s, "rejected", "cancelled")
        ELSE LET w1 == getWorkerPool(
                          [w0 EXCEPT !.sess[s].cs = finalChunkSize,
                                     !.sess[s].n = finalChunkCount,
                                     !.sess[s].k = workerChunkCount,
                                     !.sess[s].pa = "pending"],
                          finalWorkerCount)
             IN  submitRanges(w1, s, 0, finalWorkerCount)

----------------------------------------------------------------------------
(* Inputs *)

File(size, isFile, valid, clonable) ==
    [size |-> size, isFile |-> isFile, valid |-> valid, clonable |-> clonable]

\* the files a client hands to chunkFile: empty, two chunks of 1 MiB (the second
\* one byte long), three chunks in two ranges, not a File, a File postMessage
\* cannot clone
FileKinds ==
    {File(0, TRUE, TRUE, TRUE), File(MiB + 1, TRUE, TRUE, TRUE),
     File(2 * MiB + 5, TRUE, TRUE, TRUE), File(0, FALSE, TRUE, TRUE),
     File(MiB + 1, TRUE, TRUE, FALSE)}

\* the files of the calls after the first
LaterKinds == {File(MiB + 1, TRUE, TRUE, TRUE), File(MiB + 1, TRUE, TRUE, FALSE)}

ChunkSizes == {Undefined, MiB}
WorkerCounts == {Undefined, 0, 1}
CancelTags == {{}, {"complete"}, {"error", "progress"}}
\* the type of the UploadError a unit posts: the Chunk Builder's own, or
\* worker-error for anything else thrown in onmessage
UnitErrors == {"worker-error", "file-read-error", "hash-error"}
\* what a unit may post; of the failures, the clients below see worker-error only
PayloadKinds == {"ok", "worker-error", "array", "other"}

InitNoCall == call = NoCall /\ ret = NoCall /\ changes = 0

InitPool ==
    /\ hashMap = EmptyCache
    /\ poolMax = NoPool
    /\ poolId = 0
    /\ poolOps = <<>>
    /\ workers = <<>>
    /\ taskQueue = <<>>
    /\ inbox = <<>>
    /\ tasks = <<>>
    /\ sess = <<>>
    /\ cbLog = <<>>
    /\ errEvents = 0

\* failure: the type of the UploadError createChunk rejected with for good
NoStream ==
    [ci |-> 0, cs |-> 0, n |-> 0, processedCount |-> 0, processedBytes |-> 0,
     failure |-> "none"]

InitDriverOff ==
    /\ pc = "client"
    /\ fi = 0
    /\ attempt = 0
    /\ fileCount = 0
    /\ results = <<>>
    /\ stream = NoStream
    /\ drvResult = "pending"
    /\ cancelAt = NotCancelled

\* a client that calls chunkFile itself, once per file, each call with its own token
Init ==
    /\ files \in {f \in [1..MaxCalls -> FileKinds] :
                        \A i \in 2..MaxCalls : f[i] \in LaterKinds}
    /\ opts \in [chunkSize : ChunkSizes, workerCount : WorkerCounts,
                 adaptive : BOOLEAN, retry : {Undefined}]
    /\ userCancel \in CancelTags
    /\ hostUnits \in 0..HardwareConcurrency
    /\ mode = "client"
    /\ cancelled = Repeat(FALSE, MaxCalls)
    /\ InitPool
    /\ InitNoCall
    /\ InitDriverOff

----------------------------------------------------------------------------
(* Events of the main thread *)

\* no handler is running and no promise reaction is queued
MainIdle ==
    \/ pc \in {"client", "delay", "sread", "sdelay", "done"}
    \/ pc = "await" /\ sess[Len(sess)].outcome = "pending"

\* the client calls chunkFile on its next file
CallChunkFile ==
    /\ pc = "client"
    /\ Len(sess) < MaxCalls
    /\ LET f == Len(sess) + 1
           w == runMicrotasks(chunkFile(World, f, f, opts.chunkSize,
                                        opts.workerCount, opts.adaptive), 1)
       IN  Commit(w) /\ noteCancel(w, "during", 0, f)
    /\ UNCHANGED <<inputVars, quietVars, drvVars, errEvents>>

\* the user calls cancel() from an event handler of its own
Cancel(tok) ==
    /\ MainIdle
    /\ ~cancelled[tok]
    /\ Commit(cancel(World, tok))
    /\ noteCancel(cancel(World, tok), IF pc = "done" THEN "after" ELSE "during",
                  Len(results), fi)
    /\ UNCHANGED <<inputVars, quietVars, drvVars, errEvents>>

RECURSIVE Reverse(_)
Reverse(q) == IF q = <<>> THEN <<>> ELSE Append(Reverse(Tail(q)), Head(q))

\* the payload unit u posts for the oldest request it holds; "reversed" is the
\* success message of a unit that lists the chunks of its range last to first
response(w, u, kind) ==
    LET t == Head(w.inbox[u])
        S == w.sess[w.tasks[t].sess]
        chunks == workerChunks(files[S.file].size, S.cs,
                               w.tasks[t].startIndex, w.tasks[t].endIndex)
    IN  [kind |-> IF kind \in UnitErrors THEN "fail"
                  ELSE IF kind = "reversed" THEN "ok" ELSE kind,
         error |-> IF kind \in UnitErrors THEN kind ELSE "none",
         chunks |-> IF kind \in {"ok", "array"} THEN chunks
                    ELSE IF kind = "reversed" THEN Reverse(chunks)
                    ELSE <<>>]

\* worker.onmessage: unit u has answered its oldest request
WorkerMessage(u, kind) ==
    /\ MainIdle
    /\ u \in 1..Len(workers)
    /\ inbox[u] # <<>>
    /\ LET w == World
           w1 == [w EXCEPT !.inbox[u] = Tail(@)]
           w2 == runMicrotasks(handleWorkerMessage(w1, u, response(w, u, kind)), 1)
       IN  Commit(w2) /\ noteCancel(w2, "during", Len(results), fi)
    /\ UNCHANGED <<inputVars, quietVars, drvVars, errEvents>>

\* worker.onerror: an error event of unit u
WorkerError(u) ==
    /\ MainIdle
    /\ u \in 1..Len(workers)
    /\ errEvents < MaxErrors
    /\ errEvents' = errEvents + 1
    /\ LET w == runMicrotasks(handleWorkerError(World, u), 1)
       IN  Commit(w) /\ noteCancel(w, "during", Len(results), fi)
    /\ UNCHANGED <<inputVars, quietVars, drvVars>>

Next ==
    \/ CallChunkFile
    \/ \E tok \in 1..MaxCalls : Cancel(tok)
    \/ \E u \in 1..Len(workers), kind \in PayloadKinds : WorkerMessage(u, kind)
    \/ \E u \in 1..Len(workers) : WorkerError(u)

Spec == Init /\ [][Next]_vars

----------------------------------------------------------------------------
(* chunkFile with units that answer every request, the chunks of a range in
   the order of the range or last to first *)

\* three chunks in two ranges, four chunks in two ranges
MergeKinds == {File(2 * MiB + 5, TRUE, TRUE, TRUE), File(3 * MiB + 1, TRUE, TRUE, TRUE)}

MergePayloads == {"ok", "reversed"}

InitMerge ==
    /\ files \in [1..MaxCalls -> MergeKinds]
    /\ opts \in [chunkSize : {MiB}, workerCount : {Undefined, 1}, adaptive : {FALSE},
                 retry : {Undefined}]
    /\ userCancel = {}
    /\ hostUnits = HardwareConcurrency
    /\ mode = "client"
    /\ cancelled = Repeat(FALSE, MaxCalls)
    /\ InitPool
    /\ InitNoCall
    /\ InitDriverOff

NextMerge ==
    \/ CallChunkFile
    \/ \E u \in 1..Len(workers), kind \in MergePayloads : WorkerMessage(u, kind)

SpecMerge == InitMerge /\ [][NextMerge]_vars

----------------------------------------------------------------------------
(* Batch driver: processFiles(files, options, cancelController) *)

\* validateFile(file, validation) returns null iff the file passes
validateFile(f) == IF files[f].valid THEN "null" ELSE "invalid-file"

\* a callback the driver makes to the user
driverCallback(w, cb, f, kind, src, isDone, res) ==
    userCallback([w EXCEPT !.cbLog = Append(@, Callback(cb, f, kind, src, isDone, res,
                                                        isCancelled(w, DriverToken)))],
                 DriverToken, cb)

\* for (const file of files): the list is exhausted, return results
LoopDone ==
    /\ pc = "loop"
    /\ fi > Len(files)
    /\ pc' = "done"
    /\ drvResult' = "resolved"
    /\ UNCHANGED <<inputVars, quietVars, poolVars, cancelled, sess, cbLog, errEvents, fi,
                   attempt, fileCount, results, stream, cancelAt>>

\* LoopCancelled with `return results` where the code throws
LoopCancelledReturns ==
    /\ pc = "loop"
    /\ fi <= Len(files)
    /\ isCancelled(World, DriverToken)
    /\ pc' = "done"
    /\ drvResult' = "resolved"
    /\ UNCHANGED <<inputVars, quietVars, poolVars, cancelled, sess, cbLog, errEvents, fi,
                   attempt, fileCount, results, stream, cancelAt>>

\* if (cancelController.isCancelled()) throw new Error('操作已取消')
LoopCancelled ==
    /\ pc = "loop"
    /\ fi <= Len(files)
    /\ isCancelled(World, DriverToken)
    /\ pc' = "done"
    /\ drvResult' = "cancelled"
    /\ UNCHANGED <<inputVars, quietVars, poolVars, cancelled, sess, cbLog, errEvents, fi,
                   attempt, fileCount, results, stream, cancelAt>>

\* ValidationFails with `throw validationError` where the code continues
ValidationFailsThrows ==
    /\ pc = "loop"
    /\ fi <= Len(files)
    /\ ~isCancelled(World, DriverToken)
    /\ validateFile(fi) # "null"
    /\ LET w == driverCallback(World, "error", fi, validateFile(fi), "validate",
                               FALSE, <<>>)
       IN  /\ Commit(w)
           /\ noteCancel(w, "end", Len(results), fi)
    /\ pc' = "done"
    /\ drvResult' = validateFile(fi)
    /\ UNCHANGED <<inputVars, quietVars, errEvents, fi, attempt, fileCount, results, stream>>

\* validationError: onError?.(validationError); continue
ValidationFails ==
    /\ pc = "loop"
    /\ fi <= Len(files)
    /\ ~isCancelled(World, DriverToken)
    /\ validateFile(fi) # "null"
    /\ LET w == driverCallback(World, "error", fi, validateFile(fi), "validate",
                               FALSE, <<>>)
       IN  /\ Commit(w)
           /\ noteCancel(w, IF fi < Len(files) THEN "between" ELSE "end",
                         Len(results), fi + 1)
    /\ fi' = fi + 1
    /\ UNCHANGED <<inputVars, quietVars, errEvents, pc, attempt, fileCount, results, stream,
                   drvResult>>

\* StartFile without the await: the loop goes on to the next file at once
StartFileNoAwait ==
    /\ pc = "loop"
    /\ fi <= Len(files)
    /\ ~isCancelled(World, DriverToken)
    /\ validateFile(fi) = "null"
    /\ LET w == runMicrotasks(chunkFile(World, fi, DriverToken, opts.chunkSize,
                                        opts.workerCount, opts.adaptive), 1)
       IN  /\ Commit(w)
           /\ noteCancel(w, "during", Len(results), fi)
    /\ fi' = fi + 1
    /\ UNCHANGED <<inputVars, quietVars, errEvents, pc, attempt, fileCount, results, stream,
                   drvResult>>

\* the file passes: processFile(), under withRetry when a retry config is given
StartFile ==
    /\ pc = "loop"
    /\ fi <= Len(files)
    /\ ~isCancelled(World, DriverToken)
    /\ validateFile(fi) = "null"
    /\ LET w == runMicrotasks(chunkFile(World, fi, DriverToken, opts.chunkSize,
                                        opts.workerCount, opts.adaptive), 1)
       IN  /\ Commit(w)
           /\ noteCancel(w, "during", Len(results), fi)
    /\ pc' = "await"
    /\ attempt' = 0
    /\ UNCHANGED <<inputVars, quietVars, errEvents, fi, fileCount, results, stream, drvResult>>

\* chunkFile resolved: the rest of the loop body
FileResolved ==
    /\ pc = "await"
    /\ sess[Len(sess)].outcome = "resolved"
    /\ IF isCancelled(World, DriverToken)
       THEN \* throw new Error('操作已取消'), rethrown by the catch block
            /\ pc' = "done"
            /\ drvResult' = "cancelled"
            /\ UNCHANGED <<poolVars, cancelled, sess, cbLog, fi, fileCount, results,
                           cancelAt>>
       ELSE LET fileInfo == [file |-> fi, chunks |-> sess[Len(sess)].result]
                isDone == fileCount - 1 = 0
                w1 == driverCallback(World, "split", fi, "none", "driver", FALSE, <<>>)
                w2 == driverCallback(w1, "per", fi, "none", "driver", isDone, <<>>)
                res == Append(results, fileInfo)
                w3 == IF isDone
                      THEN driverCallback(w2, "last", fi, "none", "driver", FALSE, res)
                      ELSE w2
            IN  /\ Commit(w3)
                /\ noteCancel(w3, IF fi < Len(files) THEN "between" ELSE "end",
                              Len(res), fi + 1)
                /\ fileCount' = fileCount - 1
                /\ results' = res
                /\ fi' = fi + 1
                /\ pc' = "loop"
                /\ UNCHANGED drvResult
    /\ UNCHANGED <<inputVars, quietVars, errEvents, attempt, stream>>

\* chunkFile rejected and withRetry has attempts left: wait for the delay
FileRetry ==
    /\ pc = "await"
    /\ sess[Len(sess)].outcome = "rejected"
    /\ opts.retry # Undefined
    /\ attempt < opts.retry
    /\ pc' = "delay"
    /\ UNCHANGED <<inputVars, quietVars, poolVars, cancelled, sess, cbLog, errEvents, fi,
                   attempt, fileCount, results, stream, drvResult, cancelAt>>

\* the retry delay is over: the next attempt
RetryTimer ==
    /\ pc = "delay"
    /\ LET w == runMicrotasks(chunkFile(World, fi, DriverToken, opts.chunkSize,
                                        opts.workerCount, opts.adaptive), 1)
       IN  /\ Commit(w)
           /\ noteCancel(w, "during", Len(results), fi)
    /\ pc' = "await"
    /\ attempt' = attempt + 1
    /\ UNCHANGED <<inputVars, quietVars, errEvents, fi, fileCount, results, stream, drvResult>>

\* the catch blocks of the drivers: 'type' in error keeps the type of an
\* UploadError; an Error (the cancellation error is one) has none
FailureKinds == {"invalid-file", "worker-error", "file-read-error", "hash-error"}
uploadErrorKind(kind) == IF kind \in FailureKinds THEN kind ELSE "worker-error"

\* chunkFile rejected for good: the catch block of the loop body
FileRejected ==
    /\ pc = "await"
    /\ sess[Len(sess)].outcome = "rejected"
    /\ opts.retry = Undefined \/ attempt >= opts.retry
    /\ LET kind == sess[Len(sess)].kind
       IN  IF isCancelled(World, DriverToken)
           THEN \* throw error
                /\ drvResult' = kind
                /\ UNCHANGED <<poolVars, cancelled, sess, cbLog, cancelAt>>
           ELSE \* onError?.(uploadError); throw uploadError
                LET w == driverCallback(World, "error", fi, uploadErrorKind(kind),
                                        "driver", FALSE, <<>>)
                IN  /\ Commit(w)
                    /\ noteCancel(w, "end", Len(results), fi)
                    /\ drvResult' = uploadErrorKind(kind)
    /\ pc' = "done"
    /\ UNCHANGED <<inputVars, quietVars, errEvents, fi, attempt, fileCount, results, stream>>


----------------------------------------------------------------------------
(* Stream driver: processFilesStream and chunkFileStream *)

\* chunkFileStream whose loop starts at i = 1
streamStartFromOne(f) ==
    LET cs == IF opts.chunkSize = Undefined \/ opts.chunkSize = 0
              THEN DefaultChunkSize ELSE opts.chunkSize
    IN  [ci |-> 1, cs |-> cs, n |-> Ceil(files[f].size, cs),
         processedCount |-> 0, processedBytes |-> 0, failure |-> "none"]

\* the locals chunkFileStream computes before its loop
streamStart(f) ==
    LET size == files[f].size
        finalChunkSize ==
            IF opts.adaptive /\ opts.chunkSize = Undefined
            THEN calculateChunkStrategy(size, Undefined).chunkSize
            ELSE IF opts.chunkSize = Undefined \/ opts.chunkSize = 0
            THEN DefaultChunkSize ELSE opts.chunkSize
    IN  [ci |-> 0, cs |-> finalChunkSize, n |-> Ceil(size, finalChunkSize),
         processedCount |-> 0, processedBytes |-> 0, failure |-> "none"]

\* streamCatch reporting worker-error whatever the error's type
streamCatchLosesKind(w, kind) ==
    IF isCancelled(w, DriverToken) THEN w
    ELSE driverCallback(w, "error", fi, "worker-error", "driver", FALSE, <<>>)

\* the catch block of processFilesStream, entered with an error of kind `kind`
streamCatch(w, kind) ==
    IF isCancelled(w, DriverToken) THEN w
    ELSE driverCallback(w, "error", fi, uploadErrorKind(kind), "driver", FALSE, <<>>)

SLoopDone ==
    /\ pc = "sloop"
    /\ fi > Len(files)
    /\ pc' = "done"
    /\ drvResult' = "resolved"
    /\ UNCHANGED <<inputVars, quietVars, poolVars, cancelled, sess, cbLog, errEvents, fi,
                   attempt, fileCount, results, stream, cancelAt>>

SLoopCancelled ==
    /\ pc = "sloop"
    /\ fi <= Len(files)
    /\ isCancelled(World, DriverToken)
    /\ pc' = "done"
    /\ drvResult' = "cancelled"
    /\ UNCHANGED <<inputVars, quietVars, poolVars, cancelled, sess, cbLog, errEvents, fi,
                   attempt, fileCount, results, stream, cancelAt>>

SValidationFails ==
    /\ pc = "sloop"
    /\ fi <= Len(files)
    /\ ~isCancelled(World, DriverToken)
    /\ validateFile(fi) # "null"
    /\ LET w == driverCallback(World, "error", fi, validateFile(fi), "validate",
                               FALSE, <<>>)
       IN  /\ Commit(w)
           /\ noteCancel(w, IF fi < Len(files) THEN "between" ELSE "end",
                         fi - 1, fi + 1)
    /\ fi' = fi + 1
    /\ UNCHANGED <<inputVars, quietVars, errEvents, pc, attempt, fileCount, results, stream,
                   drvResult>>

\* chunkFileStream is called: its check of the file, its locals
SStartFile ==
    /\ pc = "sloop"
    /\ fi <= Len(files)
    /\ ~isCancelled(World, DriverToken)
    /\ validateFile(fi) = "null"
    /\ IF ~files[fi].isFile
       THEN LET w1 == driverCallback(World, "error", fi, "invalid-file",
                                     "chunkFileStream", FALSE, <<>>)
                w2 == streamCatch(w1, "invalid-file")
            IN  /\ Commit(w2)
                /\ noteCancel(w2, "during", fi - 1, fi)
                /\ pc' = "done"
                /\ drvResult' = "invalid-file"
                /\ UNCHANGED stream
       ELSE /\ stream' = streamStart(fi)
            /\ pc' = "schunk"
            /\ UNCHANGED <<poolVars, cancelled, sess, cbLog, drvResult, cancelAt>>
    /\ UNCHANGED <<inputVars, quietVars, errEvents, fi, attempt, fileCount, results>>

\* for (let i = 0; i < chunkCount; i++): the loop head
SChunkLoop ==
    /\ pc = "schunk"
    /\ IF stream.ci >= stream.n
       THEN \* chunkFileStream returns, the driver's loop goes on
            /\ fi' = fi + 1
            /\ pc' = "sloop"
            /\ UNCHANGED <<attempt, drvResult>>
       ELSE IF isCancelled(World, DriverToken)
       THEN \* throw new Error('操作已取消'), rethrown by the driver
            /\ pc' = "done"
            /\ drvResult' = "cancelled"
            /\ UNCHANGED <<fi, attempt>>
       ELSE \* createChunk(file, i, finalChunkSize) starts reading
            /\ pc' = "sread"
            /\ attempt' = 0
            /\ UNCHANGED <<fi, drvResult>>
    /\ UNCHANGED <<inputVars, quietVars, poolVars, cancelled, sess, cbLog, errEvents, fileCount,
                   results, stream, cancelAt>>

\* the FileReader of createChunk fires onload and the hash is computed
ReadDone ==
    /\ pc = "sread"
    /\ LET chunk == createChunk(files[fi].size, stream.ci, stream.cs)
           count == stream.processedCount + 1
           bytes == stream.processedBytes + (chunk.end - chunk.start)
           snap == [loaded |-> bytes, total |-> files[fi].size,
                    percentage |-> percentage(bytes, files[fi].size),
                    chunkIndex |-> stream.ci, totalChunks |-> stream.n,
                    processedChunks |-> count]
           w1 == driverCallback(World, "progress", fi, "none", "chunkFileStream",
                                FALSE, <<snap>>)
           w2 == driverCallback(w1, "chunk", fi, "none", "chunkFileStream",
                                count = stream.n, <<chunk>>)
       IN  /\ Commit(w2)
           /\ noteCancel(w2, "during", fi - 1, fi)
           /\ stream' = [stream EXCEPT !.ci = @ + 1, !.processedCount = count,
                                       !.processedBytes = bytes]
    /\ hashMap' = hashMapSet(hashMap)
    /\ pc' = "schunk"
    /\ UNCHANGED <<inputVars, poolOps, callVars, changes, errEvents, fi, attempt, fileCount, results, drvResult>>

\* createChunk rejects with an UploadError of kind `kind`
ReadFails(kind) ==
    /\ pc = "sread"
    /\ IF opts.retry # Undefined /\ attempt < opts.retry
       THEN \* withRetry waits for the delay
            /\ pc' = "sdelay"
            /\ UNCHANGED <<poolVars, cancelled, sess, cbLog, drvResult, cancelAt, stream>>
       ELSE \* the rejection is a plain object, not an Error: the catch block of
            \* chunkFileStream builds a new error of type FILE_READ_ERROR
            LET w1 == driverCallback(World, "error", fi, "file-read-error",
                                     "chunkFileStream", FALSE, <<>>)
                w2 == streamCatch(w1, "file-read-error")
            IN  /\ Commit(w2)
                /\ noteCancel(w2, "during", fi - 1, fi)
                /\ pc' = "done"
                /\ drvResult' = "file-read-error"
                /\ stream' = [stream EXCEPT !.failure = kind]
    /\ UNCHANGED <<inputVars, quietVars, errEvents, fi, attempt, fileCount, results>>

\* the retry delay is over: createChunk is called again
SRetryTimer ==
    /\ pc = "sdelay"
    /\ pc' = "sread"
    /\ attempt' = attempt + 1
    /\ UNCHANGED <<inputVars, quietVars, poolVars, cancelled, sess, cbLog, errEvents, fi,
                   fileCount, results, stream, drvResult, cancelAt>>

----------------------------------------------------------------------------
(* An invocation of chunkUpload or chunkUploadStream on a list of files *)

DriverKinds ==
    {File(MiB + 1, TRUE, TRUE, TRUE), File(MiB + 1, TRUE, FALSE, TRUE),
     File(MiB + 1, TRUE, TRUE, FALSE), File(0, TRUE, TRUE, TRUE)}

DriverCancelTags == {{}, {"per", "chunk"}, {"error", "split"}}
ReadErrors == {"file-read-error", "hash-error"}

InitDrivers ==
    /\ files \in UNION {[1..n -> DriverKinds] : n \in 1..MaxFiles}
    /\ opts \in [chunkSize : {MiB}, workerCount : {Undefined}, adaptive : {FALSE},
                 retry : {Undefined, MaxRetries}]
    /\ userCancel \in DriverCancelTags
    /\ hostUnits \in 1..HardwareConcurrency
    /\ mode \in {"batch", "stream"}
    /\ cancelled = Repeat(FALSE, MaxCalls)
    /\ InitPool
    /\ InitNoCall
    /\ pc = IF mode = "batch" THEN "loop" ELSE "sloop"
    /\ fi = 1
    /\ attempt = 0
    /\ fileCount = Len(files)
    /\ results = <<>>
    /\ stream = NoStream
    /\ drvResult = "pending"
    /\ cancelAt = NotCancelled

NextDrivers ==
    \/ LoopDone
    \/ LoopCancelled
    \/ ValidationFails
    \/ StartFile
    \/ FileResolved
    \/ FileRetry
    \/ RetryTimer
    \/ FileRejected
    \/ SLoopDone
    \/ SLoopCancelled
    \/ SValidationFails
    \/ SStartFile
    \/ SChunkLoop
    \/ ReadDone
    \/ \E kind \in ReadErrors : ReadFails(kind)
    \/ SRetryTimer
    \/ Cancel(DriverToken)
    \/ \E u \in 1..Len(workers), kind \in PayloadKinds : WorkerMessage(u, kind)
    \/ \E u \in 1..Len(workers) : WorkerError(u)

SpecDrivers == InitDrivers /\ [][NextDrivers]_vars

----------------------------------------------------------------------------
(* A batch invocation whose units post failures of every type *)

\* a File, a File the validation refuses, a value that is not a File
UnitKinds ==
    {File(MiB + 1, TRUE, TRUE, TRUE), File(MiB + 1, TRUE, FALSE, TRUE),
     File(MiB + 1, FALSE, TRUE, TRUE)}

UnitPayloads == {"ok"} \cup UnitErrors

InitUnits ==
    /\ files \in UNION {[1..n -> UnitKinds] : n \in 1..MaxFiles}
    /\ opts \in [chunkSize : {MiB}, workerCount : {Undefined}, adaptive : {FALSE},
                 retry : {Undefined, MaxRetries}]
    /\ userCancel \in {{}, {"per"}}
    /\ hostUnits = 1
    /\ mode = "batch"
    /\ cancelled = Repeat(FALSE, MaxCalls)
    /\ InitPool
    /\ InitNoCall
    /\ pc = "loop"
    /\ fi = 1
    /\ attempt = 0
    /\ fileCount = Len(files)
    /\ results = <<>>
    /\ stream = NoStream
    /\ drvResult = "pending"
    /\ cancelAt = NotCancelled

NextUnits ==
    \/ LoopDone
    \/ LoopCancelled
    \/ ValidationFails
    \/ StartFile
    \/ FileResolved
    \/ FileRetry
    \/ RetryTimer
    \/ FileRejected
    \/ Cancel(DriverToken)
    \/ \E u \in 1..Len(workers), kind \in UnitPayloads : WorkerMessage(u, kind)
    \/ \E u \in 1..Len(workers) : WorkerError(u)

SpecUnits == InitUnits /\ [][NextUnits]_vars

----------------------------------------------------------------------------
(* A client that calls chunkFile and the pool's exported functions *)

PoolArgs == {Undefined, 1}

\* the client notes what it called and what the getters return right after
logOp(w, op, arg, submitted) ==
    poolOps' = Append(poolOps,
                      [op |-> op, arg |-> arg, submitted |-> submitted,
                       id |-> w.poolId, max |-> w.poolMax,
                       count |-> getWorkerCount(w), queue |-> getQueueLength(w),
                       idle |-> getIdleWorkerCount(w)])

GetWorkerPool(maxWorkers) ==
    /\ pc = "client"
    /\ Len(poolOps) < MaxOps
    /\ LET w == getWorkerPool(World, maxWorkers)
       IN  Commit(w) /\ logOp(w, "getWorkerPool", maxWorkers, 0)
    /\ UNCHANGED <<inputVars, drvVars, callVars, hashMap, changes, errEvents, cancelAt>>

\* getWorkerPool().terminateAll()
TerminateAll ==
    /\ pc = "client"
    /\ Len(poolOps) < MaxOps
    /\ poolMax # NoPool
    /\ LET w == terminateAll(World)
       IN  Commit(w) /\ logOp(w, "terminateAll", Undefined, 0)
    /\ UNCHANGED <<inputVars, drvVars, callVars, hashMap, changes, errEvents, cancelAt>>

ResetWorkerPool ==
    /\ pc = "client"
    /\ Len(poolOps) < MaxOps
    /\ LET w == resetWorkerPool(World)
       IN  Commit(w) /\ logOp(w, "resetWorkerPool", Undefined, 0)
    /\ UNCHANGED <<inputVars, drvVars, callVars, hashMap, changes, errEvents, cancelAt>>

PoolChunkFile ==
    /\ pc = "client"
    /\ Len(poolOps) < MaxOps
    /\ Len(sess) < MaxCalls
    /\ LET f == Len(sess) + 1
           w == runMicrotasks(chunkFile(World, f, f, opts.chunkSize,
                                        opts.workerCount, opts.adaptive), 1)
       IN  /\ Commit(w)
           /\ logOp(w, "chunkFile", opts.workerCount, Len(w.tasks) - Len(tasks))
    /\ UNCHANGED <<inputVars, drvVars, callVars, hashMap, changes, errEvents, cancelAt>>

InitPoolClient ==
    /\ files \in [1..MaxCalls -> {File(MiB + 1, TRUE, TRUE, TRUE)}]
    /\ opts \in [chunkSize : {MiB}, workerCount : PoolArgs, adaptive : {FALSE},
                 retry : {Undefined}]
    /\ userCancel = {}
    /\ hostUnits \in 1..HardwareConcurrency
    /\ mode = "client"
    /\ cancelled = Repeat(FALSE, MaxCalls)
    /\ InitPool
    /\ InitNoCall
    /\ InitDriverOff

NextPool ==
    \/ \E maxWorkers \in PoolArgs : GetWorkerPool(maxWorkers)
    \/ TerminateAll
    \/ ResetWorkerPool
    \/ PoolChunkFile
    \/ \E u \in 1..Len(workers) : WorkerMessage(u, "ok")

SpecPool == InitPoolClient /\ [][NextPool]_vars

----------------------------------------------------------------------------
(* Selector mode: chunkUpload(selector, options) makes one controller and runs
   processFiles with it at every change event of the input element.  The change
   events taken here are those that come when the last run has ended. *)

\* el.onchange that makes a controller of its own for every run
ChangeEventNewController ==
    /\ pc \in {"idle", "done"}
    /\ changes < MaxChanges
    /\ changes' = changes + 1
    /\ cancelled' = [cancelled EXCEPT ![DriverToken] = FALSE]
    /\ pc' = "loop"
    /\ fi' = 1
    /\ attempt' = 0
    /\ fileCount' = Len(files)
    /\ results' = <<>>
    /\ drvResult' = "pending"
    /\ UNCHANGED <<inputVars, poolVars, sess, cbLog, errEvents, stream, cancelAt,
                   poolOps, callVars, hashMap>>

\* el.onchange: processFiles(files, options || {}, cancelController)
ChangeEvent ==
    /\ pc \in {"idle", "done"}
    /\ changes < MaxChanges
    /\ changes' = changes + 1
    /\ pc' = "loop"
    /\ fi' = 1
    /\ attempt' = 0
    /\ fileCount' = Len(files)
    /\ results' = <<>>
    /\ drvResult' = "pending"
    /\ UNCHANGED <<inputVars, poolVars, cancelled, sess, cbLog, errEvents, stream,
                   cancelAt, poolOps, callVars, hashMap>>

\* the user calls cancel() on the controller chunkUpload returned, again or not
UserCancel ==
    /\ MainIdle \/ pc = "idle"
    /\ Commit(cancel(World, DriverToken))
    /\ noteCancel(cancel(World, DriverToken), "during", Len(results), fi)
    /\ UNCHANGED <<inputVars, quietVars, drvVars, errEvents>>

SelectorKinds == {File(MiB + 1, TRUE, TRUE, TRUE), File(MiB + 1, TRUE, FALSE, TRUE)}

InitSelector ==
    /\ files \in UNION {[1..n -> SelectorKinds] : n \in 1..MaxFiles}
    /\ opts \in [chunkSize : {MiB}, workerCount : {Undefined}, adaptive : {FALSE},
                 retry : {Undefined, MaxRetries}]
    /\ userCancel \in {{}, {"per"}}
    /\ hostUnits = 1
    /\ mode = "batch"
    /\ cancelled = Repeat(FALSE, MaxCalls)
    /\ InitPool
    /\ InitNoCall
    /\ pc = "idle"
    /\ fi = 1
    /\ attempt = 0
    /\ fileCount = 0
    /\ results = <<>>
    /\ stream = NoStream
    /\ drvResult = "pending"
    /\ cancelAt = NotCancelled

NextSelector ==
    \/ ChangeEvent
    \/ UserCancel
    \/ LoopDone
    \/ LoopCancelled
    \/ ValidationFails
    \/ StartFile
    \/ FileResolved
    \/ FileRetry
    \/ RetryTimer
    \/ FileRejected
    \/ \E u \in 1..Len(workers), kind \in {"ok", "worker-error"} : WorkerMessage(u, kind)

SpecSelector == InitSelector /\ [][NextSelector]_vars

----------------------------------------------------------------------------
(* Direct calls of the library's functions, one call per behaviour *)

RetryCalls ==
    {[fn |-> "withRetry", outcomes |-> o, config |-> c] :
        o \in [1..MaxRetriesArg + 1 -> {"ok", "fail"}],
        c \in {NoConfig} \cup {RetryConfig(m) : m \in -1..MaxRetriesArg}}

\* file sizes at and around the bounds of the tiers, and the hints of a cap
TierSizes ==
    {0, 1, 10 * MiB - 1, 10 * MiB, 10 * MiB + 1, 100 * MiB - 1, 100 * MiB,
     100 * MiB + 1, 1024 * MiB - 1, 1024 * MiB, 1024 * MiB + 1, 1536 * MiB}
MaxCap == 8
Caps == {Undefined} \cup 1..MaxCap

StrategyCalls ==
    {[fn |-> "calculateChunkStrategy", fileSize |-> s, maxWorkers |-> c] :
        s \in TierSizes, c \in Caps}

WorkerCountCalls ==
    {[fn |-> "calculateWorkerCount", chunkCount |-> n, maxWorkers |-> c] :
        n \in 0..MaxCap + 2, c \in Caps}

\* files of two types and of sizes on and around the bounds, and the configs
SmallSize == 5
LargeSize == 10
ValidatedFiles ==
    [type : {MimeType("image", "png"), MimeType("text", "plain")},
     size : {0, SmallSize - 1, SmallSize, LargeSize, LargeSize + 1}]

ValidationConfigs ==
    {NoValidation} \cup
    [given : {TRUE},
     allowedTypes : {<<>>, <<MimeType("image", "*")>>,
                     <<MimeType("text", "plain"), MimeType("image", "jpeg")>>},
     blockedTypes : {<<>>, <<MimeType("image", "png")>>, <<MimeType("text", "*")>>},
     maxSize : {Undefined, 0, LargeSize},
     minSize : {Undefined, SmallSize},
     validate : {"none", "true", "false", "message"}]

ValidateCalls ==
    {[fn |-> "validateFile", file |-> f, config |-> c] :
        f \in ValidatedFiles, c \in ValidationConfigs}

\* createChunk(file, index, chunkSize) and how its read and its hash end
ChunkOutcomes == {"ok", "file-read-error", "hash-error"}

CreateChunkCalls ==
    {[fn |-> "createChunk", size |-> s, index |-> i, chunkSize |-> cs, outcome |-> o] :
        s \in 0..MaxBytes, i \in 0..MaxIndex, cs \in 1..MaxChunkBytes,
        o \in ChunkOutcomes}

\* the range loop of chunkFile for a chunk count and a worker count
RangeCalls ==
    {[fn |-> "taskRanges", chunkCount |-> n, workerCount |-> c] :
        n \in 1..MaxChunks, c \in 1..MaxCap}

CallInputs ==
    RetryCalls \cup StrategyCalls \cup WorkerCountCalls \cup ValidateCalls
        \cup CreateChunkCalls \cup RangeCalls

\* the call returns r; nothing else changes
returns(r) ==
    /\ ret = NoCall
    /\ ret' = r
    /\ UNCHANGED <<inputVars, poolVars, drvVars, cancelled, sess, cbLog, errEvents,
                   cancelAt, poolOps, hashMap, call, changes>>

\* what a createChunk call settles with, and the memo after it
chunkResult(size, index, chunkSize, outcome) ==
    IF outcome = "ok"
    THEN [how |-> "resolve", chunk |-> createChunk(size, index, chunkSize)]
    ELSE [how |-> "reject", type |-> outcome, chunkIndex |-> index]

\* hashMap.has(fileBuffer): a Map finds an object key by its identity
hashMapHas(h, fileBuffer) == \E i \in 1..Len(h.keys) : h.keys[i] = fileBuffer

\* the buffer of a read is a new object, h.fresh
chunkMemo(h, outcome) ==
    IF outcome = "ok" /\ ~hashMapHas(h, h.fresh) THEN hashMapSet(h) ELSE h

CallWithRetry ==
    /\ call.fn = "withRetry"
    /\ returns(withRetry(call.outcomes, call.config))

CallCalculateChunkStrategy ==
    /\ call.fn = "calculateChunkStrategy"
    /\ returns(calculateChunkStrategy(call.fileSize, call.maxWorkers))

CallCalculateWorkerCount ==
    /\ call.fn = "calculateWorkerCount"
    /\ returns([value |-> calculateWorkerCount(call.chunkCount, call.maxWorkers)])

CallValidateFile ==
    /\ call.fn = "validateFile"
    /\ returns(validateFileConfig(call.file, call.config))

CallCreateChunk ==
    /\ call.fn = "createChunk"
    /\ ret = NoCall
    /\ ret' = chunkResult(call.size, call.index, call.chunkSize, call.outcome)
    /\ hashMap' = chunkMemo(hashMap, call.outcome)
    /\ UNCHANGED <<inputVars, poolVars, drvVars, cancelled, sess, cbLog, errEvents,
                   cancelAt, poolOps, call, changes>>

CallTaskRanges ==
    /\ call.fn = "taskRanges"
    /\ returns([ranges |-> taskRanges(call.chunkCount, call.workerCount)])

InitCalls ==
    /\ call \in CallInputs
    /\ ret = NoCall
    /\ changes = 0
    /\ files = <<>>
    /\ opts = [chunkSize |-> Undefined, workerCount |-> Undefined, adaptive |-> TRUE,
               retry |-> Undefined]
    /\ userCancel = {}
    /\ hostUnits = HardwareConcurrency
    /\ mode = "client"
    /\ cancelled = Repeat(FALSE, MaxCalls)
    /\ InitPool
    /\ InitDriverOff

NextCalls ==
    \/ CallWithRetry
    \/ CallCalculateChunkStrategy
    \/ CallCalculateWorkerCount
    \/ CallValidateFile
    \/ CallCreateChunk
    \/ CallTaskRanges

SpecCalls == InitCalls /\ [][NextCalls]_vars

----------------------------------------------------------------------------
(* The memo of createChunk.ts under calls made one after the other: call is the
   last call made and ret what it gave.  The k-th createChunk is for chunk k - 1
   of a file of MaxInserts bytes cut in chunks of one byte. *)

CacheCreateChunk(outcome) ==
    /\ hashMap.fresh <= MaxInserts
    /\ call' = [fn |-> "createChunk", size |-> MaxInserts, index |-> hashMap.fresh - 1,
                chunkSize |-> 1, outcome |-> outcome]
    /\ ret' = chunkResult(MaxInserts, hashMap.fresh - 1, 1, outcome)
    /\ hashMap' = chunkMemo(hashMap, outcome)
    /\ UNCHANGED <<inputVars, poolVars, drvVars, cancelled, sess, cbLog, errEvents,
                   cancelAt, poolOps, changes>>

CacheClear ==
    /\ call' = [fn |-> "clearHashCache"]
    /\ ret' = [how |-> "return"]
    /\ hashMap' = clearHashCache(hashMap)
    /\ UNCHANGED <<inputVars, poolVars, drvVars, cancelled, sess, cbLog, errEvents,
                   cancelAt, poolOps, changes>>

CacheGetSize ==
    /\ call' = [fn |-> "getCacheSize"]
    /\ ret' = [how |-> "return", value |-> getCacheSize(hashMap)]
    /\ UNCHANGED <<inputVars, poolVars, drvVars, cancelled, sess, cbLog, errEvents,
                   cancelAt, poolOps, hashMap, changes>>

InitCache ==
    /\ files = <<>>
    /\ opts = [chunkSize |-> Undefined, workerCount |-> Undefined, adaptive |-> TRUE,
               retry |-> Undefined]
    /\ userCancel = {}
    /\ hostUnits = HardwareConcurrency
    /\ mode = "client"
    /\ cancelled = Repeat(FALSE, MaxCalls)
    /\ InitPool
    /\ InitNoCall
    /\ InitDriverOff

NextCache ==
    \/ \E outcome \in {"ok", "hash-error"} : CacheCreateChunk(outcome)
    \/ CacheClear
    \/ CacheGetSize

SpecCache == InitCache /\ [][NextCache]_vars

----------------------------------------------------------------------------
(* The pool and chunkFile, under Spec *)

callbacks(t) == tasks[t].resolveCalls + tasks[t].rejectCalls
tasksOf(s) == {t \in 1..Len(tasks) : tasks[t].sess = s}

\* no handler runs and every unit has answered every request posted to it
Quiescent == MainIdle /\ \A u \in 1..Len(inbox) : inbox[u] = <<>>

\* C1: for every task passed to submitTask, whatever the units post and whatever
\* error events they raise, the pool invokes at most one of the task's two
\* callbacks and invokes it at most once.
C1_OneCallbackPerTask ==
    \A t \in 1..Len(tasks) : tasks[t].resolveCalls + tasks[t].rejectCalls <= 1

\* C2: terminateAll is never called; once every unit has answered every request
\* posted to it, every task passed to submitTask has had one of its callbacks
\* invoked and none is left in the queue, however many units could be created.
C2_EveryTaskServed ==
    Quiescent =>
        \A t \in 1..Len(tasks) :
            /\ callbacks(t) >= 1
            /\ \A i \in 1..Len(taskQueue) : taskQueue[i] # t

\* the chunks of a file of `size` bytes cut at chunkSize, in index order
chunkPlan(size, chunkSize) == workerChunks(size, chunkSize, 0, Ceil(size, chunkSize))

\* C3: whenever chunkFile resolves for a non-empty file, the array has exactly
\* ceil(size / chunkSize) entries, entry i has index i, start i * chunkSize and
\* end min(start + chunkSize, size), and the entries' lengths sum to the size.
C3_ResolvedArrayIsChunkPlan ==
    \A s \in 1..Len(sess) :
        (sess[s].outcome = "resolved" /\ files[sess[s].file].size > 0) =>
            /\ sess[s].result = chunkPlan(files[sess[s].file].size, sess[s].cs)
            /\ SumSeq([i \in 1..Len(sess[s].result) |->
                          sess[s].result[i].end - sess[s].result[i].start])
                 = files[sess[s].file].size

\* C4: a chunkFile call whose token was cancelled while a task of it was
\* outstanding is rejected with the cancellation error once all its tasks have
\* been answered, whether they ended in success or in failure.
C4_CancelledCallRejects ==
    \A s \in 1..Len(sess) :
        (sess[s].cancelledOutstanding /\ \A t \in tasksOf(s) : callbacks(t) >= 1)
            => (sess[s].outcome = "rejected" /\ sess[s].kind = "cancelled")

\* C5: a chunkFile call that has submitted its ranges and settles after its token
\* was cancelled rejects with the cancellation error (it neither resolves
\* nor reports worker-error), and no worker-error reaches the error callback
\* once the token is cancelled.
C5_CancelledCallOnlyCancels ==
    /\ \A s \in 1..Len(sess) :
          (sess[s].pa # "none" /\ sess[s].outcome # "pending"
                               /\ sess[s].cancelledAtSettle)
              => (sess[s].outcome = "rejected" /\ sess[s].kind = "cancelled")
    /\ \A i \in 1..Len(cbLog) :
          ~(cbLog[i].src = "chunkFile" /\ cbLog[i].kind = "worker-error"
                                       /\ cbLog[i].afterCancel)

C6_State ==
    \A s \in 1..Len(sess) :
        /\ sess[s].errCb <= 1
        /\ (sess[s].outcome = "rejected" /\ sess[s].kind = "worker-error")
              => sess[s].errCb = 1
        /\ \A i \in 1..Len(sess[s].prog) : ~sess[s].prog[i].afterSettle

C6_Step ==
    \A s \in 1..Len(sess) :
        sess[s].outcome # "pending" =>
            /\ sess'[s].outcome = sess[s].outcome
            /\ sess'[s].kind = sess[s].kind
            /\ sess'[s].result = sess[s].result
            /\ sess'[s].errCb = sess[s].errCb
            /\ sess'[s].prog = sess[s].prog

\* C6: within one chunkFile call the error callback is invoked at most once, and
\* exactly once when the call rejects with worker-error; once the call has
\* settled, the completions and failures of its tasks cause no error callback,
\* no progress snapshot and no change of the outcome.
C6_ErrorReportedOnce == []C6_State /\ [][C6_Step]_vars

\* a call rejected with worker-error, two of whose tasks have failed at their units
C6_Witness ==
    \E s \in 1..Len(sess) :
        /\ sess[s].outcome = "rejected"
        /\ sess[s].kind = "worker-error"
        /\ sess[s].errCb = 1
        /\ Cardinality({t \in tasksOf(s) : /\ tasks[t].posted >= 1
                                            /\ tasks[t].rejectCalls >= 1}) >= 2

----------------------------------------------------------------------------
(* The drivers, under SpecDrivers *)

entries(cb) == {i \in 1..Len(cbLog) : cbLog[i].cb = cb}
entriesOf(f) == {i \in 1..Len(cbLog) : cbLog[i].file = f}

\* C7: a batch invocation that has run to completion without throwing has invoked
\* lastCallback exactly once, after everything else, with the accumulated
\* FileResults in input order, and perCallback has received isDone = true
\* exactly once, on the last file.
C7_LastCallbackOnce ==
    (mode = "batch" /\ pc = "done" /\ drvResult = "resolved") =>
        /\ Cardinality(entries("last")) = 1
        /\ \A i \in entries("last") : i = Len(cbLog) /\ cbLog[i].results = results
        /\ \A a, b \in 1..Len(results) : a < b => results[a].file < results[b].file
        /\ Cardinality({i \in entries("per") : cbLog[i].isDone}) = 1
        /\ \A i \in entries("per") : cbLog[i].isDone => cbLog[i].file = Len(files)

\* file f has passed: chunkFile has resolved for it and perCallback was invoked
\* among the first n callbacks
passed(f, n) == \E i \in 1..n : cbLog[i].cb = "per" /\ cbLog[i].file = f

\* C8: in batch mode, when a chunkFile call (hence a task) for a file exists or a
\* callback for it has been invoked, every valid file before it has its
\* chunkFile calls settled, the last one resolved, and its perCallback invoked
\* before.
C8_FilesInOrderNoOverlap ==
    mode = "batch" =>
        /\ \A s2 \in 1..Len(sess) : \A f \in 1..(sess[s2].file - 1) :
              files[f].valid =>
                  /\ \E s1 \in 1..(s2 - 1) :
                        sess[s1].file = f /\ sess[s1].outcome = "resolved"
                  /\ \A s1 \in 1..Len(sess) :
                        sess[s1].file = f => sess[s1].outcome # "pending"
                  /\ passed(f, Len(cbLog))
        /\ \A j \in 1..Len(cbLog) : \A f \in 1..(cbLog[j].file - 1) :
              files[f].valid => passed(f, j - 1)
        /\ \A i, j \in 1..Len(cbLog) : i < j => cbLog[i].file <= cbLog[j].file

\* the second file's task is at a unit, the first file valid
C8_Witness ==
    /\ mode = "batch"
    /\ files[1].valid
    /\ \E t \in 1..Len(tasks) :
          /\ sess[tasks[t].sess].file = 2
          /\ sess[tasks[t].sess].outcome = "pending"
          /\ tasks[t].posted >= 1

C9_State ==
    (mode = "batch" /\ cancelAt.phase = "between") =>
        /\ Cardinality(entries("per")) = cancelAt.k
        /\ entries("last") = {}
        /\ \A s \in 1..Len(sess) : sess[s].file < cancelAt.next
        /\ \A t \in 1..Len(tasks) : sess[tasks[t].sess].file < cancelAt.next
        /\ pc \in {"loop", "done"}
        /\ pc = "done" => drvResult = "cancelled"

C9_Step ==
    (mode = "batch" /\ cancelAt.phase = "between" /\ pc = "loop")
        => (pc' = "done" /\ drvResult' = "cancelled")

\* C9: when the token is cancelled after k files of a batch invocation have
\* completed and before the next file begins, perCallback has received exactly k
\* FileResults, no chunkFile call and no task exists for a later file, the
\* driver's next step rejects with the cancellation error, and lastCallback is
\* not invoked.
C9_CancelBetweenFiles == []C9_State /\ [][C9_Step]_vars

\* cancelled after one file had completed, a valid file next, the driver ended
C9_Witness ==
    /\ mode = "batch"
    /\ cancelAt.phase = "between"
    /\ cancelAt.k >= 1
    /\ files[cancelAt.next].valid
    /\ pc = "done"

C10_State ==
    \A f \in 1..Len(files) :
        (mode \in {"batch", "stream"} /\ ~files[f].valid) =>
            /\ \A i \in entriesOf(f) : /\ cbLog[i].cb = "error"
                                       /\ cbLog[i].kind = "invalid-file"
                                       /\ cbLog[i].src = "validate"
            /\ Cardinality(entriesOf(f)) = IF f < fi THEN 1 ELSE 0
            /\ \A s \in 1..Len(sess) : sess[s].file # f
            /\ pc \in {"await", "delay", "schunk", "sread", "sdelay"} => fi # f
            /\ (pc = "done" /\ fi = f) => drvResult = "cancelled"

C10_Step ==
    (/\ pc \in {"loop", "sloop"}
     /\ fi <= Len(files)
     /\ ~files[fi].valid
     /\ ~cancelled[DriverToken])
        => (fi' = fi + 1 /\ pc' = pc /\ drvResult' = drvResult)

\* C10: in both drivers a file that fails validation gets exactly one callback,
\* the error callback with invalid-file from the validation; no chunkFile call,
\* task or chunk read exists for it; the driver goes on to the next file and
\* never rejects at that file but for cancellation.
C10_InvalidFileSkipped == []C10_State /\ [][C10_Step]_vars

\* the stream driver has skipped an invalid first file, delivered the second
\* file's chunks and resolved
C10_Witness ==
    /\ mode = "stream"
    /\ Len(files) = 2
    /\ ~files[1].valid
    /\ drvResult = "resolved"
    /\ \E i \in entries("chunk") : cbLog[i].file = 2 /\ cbLog[i].isDone

\* the invocation has rejected with a failure, not with the cancellation error
Failed == drvResult \notin {"pending", "resolved", "cancelled"}

C11_State ==
    ((mode \in {"batch", "stream"}) /\ Failed) =>
        /\ pc = "done"
        /\ drvResult \in FailureKinds
        /\ \E i \in entries("error") : cbLog[i].file = fi /\ cbLog[i].kind = drvResult
        /\ cancelAt.phase \in {"none", "end", "after"} =>
              \E i \in entries("error") : /\ cbLog[i].file = fi
                                          /\ cbLog[i].src = "driver"
                                          /\ cbLog[i].kind = drvResult
        /\ \A s \in 1..Len(sess) : sess[s].file <= fi
        /\ \A i \in 1..Len(cbLog) : cbLog[i].file <= fi

C11_Step ==
    Failed => /\ cbLog' = cbLog
              /\ Len(tasks') = Len(tasks)
              /\ Len(sess') = Len(sess)
              /\ drvResult' = drvResult

\* C11: when a driver has rejected with a failure at a file, the error callback
\* has received a failure of that file with the kind the driver rejects with (from
\* the driver's catch block unless the token was cancelled before it), the driver
\* has ended, and no chunkFile call, task or callback exists or appears for a
\* later file.
C11_FailureStopsTheDriver == []C11_State /\ [][C11_Step]_vars

\* the batch driver reported a worker-error of the first of two files
C11_Witness ==
    /\ mode = "batch"
    /\ Len(files) = 2
    /\ fi = 1
    /\ drvResult = "worker-error"
    /\ \E i \in entries("error") : cbLog[i].src = "driver"
    /\ \E t \in 1..Len(tasks) : tasks[t].posted >= 1 /\ tasks[t].rejectCalls >= 1

----------------------------------------------------------------------------
(* The pool's handling of error events and its queue, under Spec *)

queued(q) == {q[i] : i \in 1..Len(q)}

\* what an error event of unit u does to the pool
errorEventOf(u) ==
    LET t == workers[u].currentTask
        others == {t2 \in 1..Len(tasks) : t2 # t /\ t2 \notin queued(taskQueue)}
    IN  /\ \A u2 \in 1..Len(workers) \ {u} :
              workers'[u2] = workers[u2] /\ inbox'[u2] = inbox[u2]
        /\ \A t2 \in others : /\ tasks'[t2].rejectCalls = tasks[t2].rejectCalls
                              /\ tasks'[t2].resolveCalls = tasks[t2].resolveCalls
                              /\ tasks'[t2].posted = tasks[t2].posted
        /\ workers[u].isBusy =>
              /\ tasks'[t].rejectCalls = tasks[t].rejectCalls + 1
              /\ tasks'[t].resolveCalls = tasks[t].resolveCalls
              /\ tasks'[t].posted = tasks[t].posted
              /\ t \notin queued(taskQueue')
              /\ workers'[u].currentTask # t
        /\ IF taskQueue = <<>>
           THEN workers'[u] = Idle /\ taskQueue' = <<>> /\ inbox'[u] = inbox[u]
           ELSE postable(World, Head(taskQueue)) =>
                   /\ workers'[u] = [isBusy |-> TRUE, currentTask |-> Head(taskQueue)]
                   /\ taskQueue' = Tail(taskQueue)
                   /\ inbox'[u] = Append(inbox[u], Head(taskQueue))
                   /\ tasks'[Head(taskQueue)].posted = tasks[Head(taskQueue)].posted + 1

\* C15: an error event of a unit rejects the task the unit holds, once and through
\* its reject callback, and no other task outside the queue; the unit becomes idle
\* or, when the queue is not empty, takes the oldest queued task at once; the
\* failed task is posted no more and is not queued again.
C15_ErrorEventRejectsCurrentTask ==
    [][errEvents' # errEvents => \E u \in 1..Len(workers) : errorEventOf(u)]_vars

\* a unit that failed while holding task t has been given the queued task t2 while
\* t's request was still unanswered
C15_Witness ==
    /\ errEvents = 1
    /\ \E u \in 1..Len(workers), t \in 1..Len(tasks), t2 \in 1..Len(tasks) :
          /\ t # t2
          /\ tasks[t].rejectCalls = 1 /\ tasks[t].resolveCalls = 0
          /\ tasks[t].posted = 1 /\ tasks[t].unitError = "none"
          /\ tasks[t2].posted = 1
          /\ workers[u] = [isBusy |-> TRUE, currentTask |-> t2]
          /\ inbox[u] = <<t, t2>>

\* C16: the pool assigns tasks to units, and so posts them, in the order of
\* their submission: a task is assigned only after every task submitted before
\* it, the queue holds exactly the tasks not yet assigned, oldest first.
C16_DispatchInSubmissionOrder ==
    /\ \A A \in 1..Len(tasks), B \in 1..Len(tasks) :
          (A < B /\ tasks[B].seq # 0) => (tasks[A].seq # 0 /\ tasks[A].seq < tasks[B].seq)
    /\ \A i \in 1..Len(taskQueue), j \in 1..Len(taskQueue) :
          i < j => taskQueue[i] < taskQueue[j]
    /\ queued(taskQueue) = {t \in 1..Len(tasks) : tasks[t].seq = 0}
    /\ \A t \in 1..Len(tasks) : tasks[t].posted > 0 => tasks[t].seq # 0

\* the only unit has been given both tasks of one call, the second one from the
\* queue, while a task of the next call waits
C16_Witness ==
    /\ Len(workers) = 1
    /\ taskQueue # <<>>
    /\ \E A \in 1..Len(tasks), B \in 1..Len(tasks) :
          /\ A < B
          /\ tasks[A].sess = tasks[B].sess
          /\ tasks[A].posted = 1 /\ tasks[B].posted = 1
          /\ tasks[A].seq < tasks[B].seq
          /\ tasks[Head(taskQueue)].sess # tasks[A].sess

\* C19: the progress snapshots of a chunkFile call have loaded bytes that never
\* decrease and never exceed the file's size, total = the file's size and
\* percentage = min(100, round(loaded / total * 100)); a call that resolved a
\* non-empty file has a last snapshot with loaded = total and 100 %, emitted
\* before it resolved; no snapshot is emitted after the call has settled or its
\* token was cancelled.
C19_ProgressSnapshots ==
    \A s \in 1..Len(sess) :
        LET prog == sess[s].prog
            size == files[sess[s].file].size
        IN  /\ \A i \in 1..Len(prog) :
                  /\ prog[i].total = size
                  /\ prog[i].loaded <= prog[i].total
                  /\ prog[i].percentage = percentage(prog[i].loaded, prog[i].total)
                  /\ ~prog[i].afterSettle
                  /\ ~prog[i].afterCancel
                  /\ i > 1 => prog[i - 1].loaded <= prog[i].loaded
            /\ (sess[s].outcome = "resolved" /\ sess[s].n > 0) =>
                  /\ prog # <<>>
                  /\ prog[Len(prog)].loaded = size
                  /\ prog[Len(prog)].percentage = 100

\* a call that ended in chunkFile's checks before any range was made
preflight(s) == sess[s].pa = "none" /\ sess[s].outcome # "pending"

C20_State ==
    \A s \in 1..Len(sess) :
        preflight(s) =>
            /\ sess[s].submitted = 0 /\ tasksOf(s) = {}
            /\ sess[s].prog = <<>>
            /\ sess[s].errCb = IF files[sess[s].file].isFile THEN 0 ELSE 1

\* the step of a chunkFile call, for the call's session S
C20_Step ==
    Len(sess') = Len(sess) + 1 =>
        LET s == Len(sess) + 1
            S == sess'[s]
            f == files[S.file]
            quiet == /\ Len(tasks') = Len(tasks)
                     /\ S.submitted = 0
                     /\ S.prog = <<>>
        IN  IF ~f.isFile
            THEN /\ S.outcome = "rejected" /\ S.kind = "invalid-file"
                 /\ S.errCb = 1
                 /\ Len(cbLog') = Len(cbLog) + 1
                 /\ cbLog'[Len(cbLog')].cb = "error"
                 /\ cbLog'[Len(cbLog')].kind = "invalid-file"
                 /\ quiet
            ELSE IF f.size = 0
            THEN /\ S.outcome = "resolved" /\ S.result = <<>>
                 /\ cbLog' = cbLog
                 /\ quiet
            ELSE IF cancelled[S.tok]
            THEN /\ S.outcome = "rejected" /\ S.kind = "cancelled"
                 /\ S.errCb = 0 /\ cbLog' = cbLog
                 /\ quiet
            ELSE S.pa # "none"

\* C20: chunkFile checks in this order: a value that is not a File is rejected
\* with invalid-file after one call of the error callback; a File of zero bytes
\* resolves with the empty list, cancelled token or not; a non-empty File whose
\* token is already cancelled is rejected with the cancellation error without the
\* error callback.  None of the three submits a task or emits a snapshot, then or
\* later.
C20_PreflightOrder == []C20_State /\ [][C20_Step]_vars

\* with both tokens cancelled beforehand, the call on the empty File resolved and
\* the call on the non-empty File was rejected as cancelled
C20_Witness ==
    /\ Len(sess) = 2
    /\ files[1].isFile /\ files[1].size = 0
    /\ sess[1].outcome = "resolved" /\ sess[1].cancelledAtSettle
    /\ files[2].size > 0
    /\ preflight(2) /\ sess[2].kind = "cancelled"

----------------------------------------------------------------------------
(* Failures of the units, under SpecUnits *)

\* every task rejected so far was rejected by a failure payload of type K
onlyUnitFailures(K) ==
    /\ errEvents = 0
    /\ \A t \in 1..Len(tasks) : tasks[t].rejectCalls > 0 => tasks[t].unitError = K

\* C12: when the only failures of a batch invocation are payloads carrying the
\* Chunk Builder's file-read-error or hash-error, the rejection of chunkFile, the
\* failures handed to the error callback and the rejection of the invocation
\* carry that same kind.
C12_BuilderKindReachesCaller ==
    \A K \in ReadErrors :
        onlyUnitFailures(K) =>
            /\ \A s \in 1..Len(sess) :
                  (sess[s].outcome = "rejected"
                        /\ sess[s].kind \notin {"cancelled", "invalid-file"})
                     => sess[s].kind = K
            /\ \A i \in entries("error") :
                  cbLog[i].kind # "invalid-file" => cbLog[i].kind = K
            /\ (Failed /\ drvResult # "invalid-file") => drvResult = K

\* C14: once chunkFile has rejected with invalid-file for a file, the batch
\* driver calls chunkFile for that file no more, retry configured or not.
C14_InvalidFileOneAttempt ==
    \A s \in 1..Len(sess) :
        (sess[s].outcome = "rejected" /\ sess[s].kind = "invalid-file") =>
            \A s2 \in 1..Len(sess) : sess[s2].file = sess[s].file => s2 <= s

----------------------------------------------------------------------------
(* Failures and the drivers, under SpecDrivers *)

\* C13: a batch or stream invocation without retry that has rejected with a
\* failure at a file, its token never cancelled, has invoked the error callback
\* exactly once for that file.
C13_ErrorCallbackOnce ==
    (opts.retry = Undefined /\ Failed /\ ~cancelled[DriverToken]) =>
        Cardinality({i \in entries("error") : cbLog[i].file = fi}) = 1

----------------------------------------------------------------------------
(* The life of the pool, under SpecPool *)

C17_State ==
    /\ poolMax = NoPool => getWorkerCount(World) = 0
    /\ poolMax # NoPool => getWorkerCount(World) <= poolMax
    /\ \A i \in 1..Len(poolOps) :
          /\ poolOps[i].max # NoPool => poolOps[i].count <= poolOps[i].max
          /\ poolOps[i].op = "terminateAll" =>
                poolOps[i].count = 0 /\ poolOps[i].queue = 0 /\ poolOps[i].idle = 0
          /\ (/\ i > 1
              /\ poolOps[i - 1].op = "terminateAll"
              /\ poolOps[i].op = "chunkFile"
              /\ poolOps[i].submitted > 0) =>
                /\ poolOps[i].count = Min(poolOps[i].max, hostUnits)
                /\ poolOps[i].count > 0
                /\ poolOps[i].idle < poolOps[i].count

C17_Step == Len(workers') > Len(workers) => Len(tasks') > Len(tasks)

prevId(i) == IF i = 1 THEN 0 ELSE poolOps[i - 1].id
prevMax(i) == IF i = 1 THEN NoPool ELSE poolOps[i - 1].max

\* C18: while a pool exists, getWorkerPool and chunkFile get that same pool with
\* its maxWorkers, whatever maxWorkers they ask for, and terminateAll() keeps it;
\* resetWorkerPool() leaves no pool, no unit and no queued task; the first
\* getWorkerPool when no pool exists builds a new pool, empty, with the
\* maxWorkers asked for (the host's concurrency when none is given).
C18_OnePoolUntilReset ==
    \A i \in 1..Len(poolOps) :
        LET o == poolOps[i]
        IN  /\ (o.op \in {"getWorkerPool", "chunkFile", "terminateAll"}
                    /\ prevMax(i) # NoPool) =>
                  o.id = prevId(i) /\ o.max = prevMax(i)
            /\ (o.op = "getWorkerPool" /\ prevMax(i) = NoPool) =>
                  /\ o.id = prevId(i) + 1
                  /\ o.max = IF o.arg = Undefined THEN HardwareConcurrency ELSE o.arg
                  /\ o.count = 0 /\ o.queue = 0 /\ o.idle = 0
            /\ o.op = "resetWorkerPool" =>
                  /\ o.id = prevId(i)
                  /\ o.max = NoPool
                  /\ o.count = 0 /\ o.queue = 0 /\ o.idle = 0

\* a getWorkerPool whose maxWorkers was ignored, a reset of that pool, and a
\* getWorkerPool that built the next pool with another maxWorkers
C18_Witness ==
    \E i \in 1..Len(poolOps), j \in 1..Len(poolOps), k \in 1..Len(poolOps) :
        /\ i < j /\ j < k
        /\ poolOps[i].op = "getWorkerPool"
        /\ prevMax(i) # NoPool
        /\ poolOps[i].max # (IF poolOps[i].arg = Undefined
                             THEN HardwareConcurrency ELSE poolOps[i].arg)
        /\ poolOps[j].op = "resetWorkerPool"
        /\ poolOps[k].op = "getWorkerPool"
        /\ poolOps[k].id = poolOps[i].id + 1
        /\ poolOps[k].max # poolOps[i].max

----------------------------------------------------------------------------
(* The stream driver's per-chunk callbacks, under SpecDrivers *)

\* the per-chunk callbacks of file f, in the order of their invocation
chunkCallbacks(f) == SelectSeq(cbLog, LAMBDA e : e.cb = "chunk" /\ e.file = f)

\* the number of chunks chunkFileStream cuts file f into
streamChunkCount(f) == streamStart(f).n

\* chunkFileStream has returned for file f
streamed(f) ==
    /\ files[f].isFile /\ files[f].valid
    /\ f < fi \/ drvResult = "resolved"

\* C21: in stream mode the per-chunk callbacks of a file come one per chunk in
\* the order 0, 1, ..., each with the chunk of that index, isDone is true on the
\* callback of the last chunk only, the read of chunk i starts only when the
\* callbacks of chunks 0..i-1 have returned, a file chunkFileStream has returned
\* for has had all its callbacks, and a zero-byte file has none.
C21_ChunkCallbacksInOrder ==
    mode = "stream" =>
        \A f \in 1..Len(files) :
            LET cbs == chunkCallbacks(f)
                N == streamChunkCount(f)
            IN  /\ Len(cbs) <= N
                /\ \A i \in 1..Len(cbs) :
                      /\ cbs[i].results =
                            <<createChunk(files[f].size, i - 1, opts.chunkSize)>>
                      /\ cbs[i].isDone = (i = N)
                /\ (f = fi /\ pc \in {"sread", "sdelay"}) => Len(cbs) = stream.ci
                /\ streamed(f) => Len(cbs) = N
                /\ files[f].size = 0 => cbs = <<>>

\* both chunks of the first file were delivered, the empty second file passed
C21_Witness ==
    /\ mode = "stream"
    /\ drvResult = "resolved"
    /\ Len(files) = 2
    /\ streamChunkCount(1) = 2 /\ streamed(1)
    /\ Len(chunkCallbacks(1)) = 2
    /\ files[2].size = 0 /\ streamed(2)

\* C22: in stream mode no per-chunk callback and no progress snapshot is
\* delivered at a moment when the token is already cancelled.
C22_NothingAfterCancel ==
    mode = "stream" =>
        \A i \in 1..Len(cbLog) :
            cbLog[i].cb \in {"chunk", "progress"} => ~cbLog[i].afterCancel

----------------------------------------------------------------------------
(* The library's functions called directly, under SpecCalls *)

returned(fn) == call.fn = fn /\ ret # NoCall

\* the attempts withRetry may make under its config, and the first that succeeds
attemptsOf(c) == 1 + (IF c.given THEN c.maxRetries ELSE DefaultMaxRetries)
firstOk(o, n) == {i \in 1..n : o[i] = "ok" /\ \A j \in 1..i - 1 : o[j] = "fail"}

retryContract(c, o, r) ==
    /\ r.calls >= 1 /\ r.calls <= attemptsOf(c)
    /\ IF firstOk(o, attemptsOf(c)) # {}
       THEN /\ r.how = "return"
            /\ r.what \in firstOk(o, attemptsOf(c))
            /\ r.calls = r.what
       ELSE /\ r.how = "throw"
            /\ r.what = attemptsOf(c)
            /\ r.calls = attemptsOf(c)

\* C23 as stated: for every config withRetry calls the operation at least once
\* and at most maxRetries + 1 times, returns the result of the first successful
\* attempt without a further attempt, rethrows the last attempt's failure when all
\* maxRetries + 1 fail, and makes 4 attempts at most with no config.
C23_EveryConfig ==
    returned("withRetry") => retryContract(call.config, call.outcomes, ret)

\* C23, for the configs whose maxRetries is not negative: the same contract.
C23_RetryAttempts ==
    (returned("withRetry") /\ attemptsOf(call.config) >= 1) =>
        retryContract(call.config, call.outcomes, ret)

\* with no config, three attempts failed and the fourth one's result came back
C23_Witness ==
    /\ returned("withRetry")
    /\ ~call.config.given
    /\ ret.how = "return" /\ ret.what = 4 /\ ret.calls = 4

\* the cap of a call: the hint, or the host's default when there is no hint
capOf(c) == IF c = Undefined THEN HardwareConcurrency ELSE c

\* the tier of a size: from, up to (0: no end), its chunk size, all in MiB, and
\* the most units it asks for (0: no limit but the cap)
tierOf(s) ==
    CHOOSE t \in {<<0, 10, 1, 2>>, <<10, 100, 5, 4>>, <<100, 1024, 10, 6>>,
                  <<1024, 0, 20, 0>>} :
        t[1] * MiB <= s /\ (t[2] = 0 \/ s < t[2] * MiB)

\* C25: for every size s >= 0 and every cap c >= 1, calculateChunkStrategy gives
\* the chunk size 1 / 5 / 10 / 20 MiB and the worker count min(2,c) / min(4,c) /
\* min(6,c) / c for s in [0, 10 MiB) / [10 MiB, 100 MiB) / [100 MiB, 1024 MiB) /
\* [1024 MiB, ...), a size on a bound being of the upper tier.
C25_Tiers ==
    returned("calculateChunkStrategy") =>
        LET t == tierOf(call.fileSize)
            c == capOf(call.maxWorkers)
        IN  /\ ret.chunkSize = t[3] * MiB
            /\ ret.workerCount = IF t[4] = 0 \/ c < t[4] THEN c ELSE t[4]

\* a file of exactly 100 MiB with a cap of 8 got 10 MiB chunks and 6 units
C25_Witness ==
    /\ returned("calculateChunkStrategy")
    /\ call.fileSize = 100 * MiB /\ call.maxWorkers = 8
    /\ ret.chunkSize = 10 * MiB /\ ret.workerCount = 6

\* C26: for every chunkCount >= 0 and every cap c >= 1, calculateWorkerCount
\* gives max(1, chunkCount) when chunkCount < c and c otherwise; the result is in
\* [1, c] and is not above chunkCount when chunkCount >= 1.
C26_WorkerCount ==
    returned("calculateWorkerCount") =>
        LET n == call.chunkCount
            c == capOf(call.maxWorkers)
        IN  /\ ret.value = IF n < c THEN (IF n >= 1 THEN n ELSE 1) ELSE c
            /\ 1 <= ret.value /\ ret.value <= c
            /\ n >= 1 => ret.value <= n

\* no chunk at all under a cap of 4: one unit all the same
C26_Witness ==
    /\ returned("calculateWorkerCount")
    /\ call.chunkCount = 0 /\ call.maxWorkers = 4
    /\ ret.value = 1

chunkBounds(c, size, index, chunkSize) ==
    /\ c.start = index * chunkSize
    /\ c.end = (IF c.start + chunkSize < size THEN c.start + chunkSize ELSE size)
    /\ 0 <= c.start /\ c.start <= c.end /\ c.end <= size

\* C28 as stated: every descriptor createChunk(file, index, chunkSize) produces
\* has start = index*chunkSize, end = min(start+chunkSize, file.size) and
\* 0 <= start <= end <= file.size, for every index >= 0 and chunk size > 0.
C28_EveryIndex ==
    (returned("createChunk") /\ ret.how = "resolve") =>
        chunkBounds(ret.chunk, call.size, call.index, call.chunkSize)

\* C28, for the indices whose chunk starts inside the file or at its end
\* (index*chunkSize <= file.size): the same bounds.
C28_ChunkBounds ==
    (returned("createChunk") /\ ret.how = "resolve"
        /\ call.index * call.chunkSize <= call.size) =>
        chunkBounds(ret.chunk, call.size, call.index, call.chunkSize)

\* the last chunk of a file, shorter than the chunk size, ends at the file's end
C28_Witness ==
    /\ returned("createChunk") /\ ret.how = "resolve"
    /\ call.index > 0
    /\ call.index * call.chunkSize < call.size
    /\ call.index * call.chunkSize + call.chunkSize > call.size
    /\ ret.chunk.end = call.size

----------------------------------------------------------------------------
(* The memo of createChunk.ts, under SpecCache *)

\* the keys of the memo with one more inserted, and how many of them are over
withNew(h) == Append(h.keys, h.fresh)
over(h) == IF Len(withNew(h)) > 100 THEN Len(withNew(h)) - 100 ELSE 0

C29_State ==
    /\ getCacheSize(hashMap) <= 100
    /\ call.fn = "getCacheSize" => ret.value <= 100
    /\ call.fn = "clearHashCache" => getCacheSize(hashMap) = 0

C29_Step ==
    /\ (call'.fn = "createChunk" /\ ret'.how = "resolve") =>
           /\ Len(hashMap'.keys) = Len(withNew(hashMap)) - over(hashMap)
           /\ \A i \in 1..Len(hashMap'.keys) :
                  hashMap'.keys[i] = withNew(hashMap)[i + over(hashMap)]
    /\ (call.fn = "clearHashCache" /\ call'.fn = "getCacheSize") => ret'.value = 0

\* C29: after every createChunk and every clearHashCache getCacheSize() is 100
\* at most; an insertion that takes the memo above 100 entries removes the
\* oldest entries by insertion order, just as many as bring it back to 100;
\* after clearHashCache() getCacheSize() is 0.
C29_MemoCapacity == []C29_State /\ [][C29_Step]_vars

\* 102 chunks were made in a row: the memo holds the 100 newest, and
\* getCacheSize() said so
C29_Witness ==
    /\ call.fn = "getCacheSize" /\ ret.value = 100
    /\ hashMap.fresh = 103
    /\ hashMap.keys[1] = 3 /\ hashMap.keys[100] = 102

\* the checks of a config in their order, and those a file violates
Checks == <<"allowedTypes", "blockedTypes", "maxSize", "minSize", "validate">>

accepts(types, fileType) ==
    \E i \in 1..Len(types) :
        \/ types[i] = fileType
        \/ types[i].minor = "*" /\ types[i].major = fileType.major

violated(k, f, c) ==
    CASE Checks[k] = "allowedTypes" -> c.allowedTypes # <<>> /\ ~accepts(c.allowedTypes, f.type)
      [] Checks[k] = "blockedTypes" -> c.blockedTypes # <<>> /\ accepts(c.blockedTypes, f.type)
      [] Checks[k] = "maxSize" -> c.maxSize # Undefined /\ ~(f.size <= c.maxSize)
      [] Checks[k] = "minSize" -> c.minSize # Undefined /\ ~(f.size >= c.minSize)
      [] Checks[k] = "validate" -> c.validate \in {"false", "message"}

violations(f, c) == IF c.given THEN {k \in 1..Len(Checks) : violated(k, f, c)} ELSE {}

first(S) == CHOOSE k \in S : \A j \in S : k <= j

\* C27: validateFile applies allowedTypes, blockedTypes, maxSize, minSize and the
\* custom predicate in this order and returns the invalid-file failure of the
\* first check violated; the predicate is not called when an earlier check
\* fails; a size equal to maxSize or to minSize passes; the result is null
\* exactly when no check is violated, and always when no config is given.
C27_ChecksInOrder ==
    returned("validateFile") =>
        LET v == violations(call.file, call.config)
        IN  /\ ret.type = "null" <=> v = {}
            /\ ~call.config.given => ret.type = "null"
            /\ v # {} => ret.type = "invalid-file" /\ ret.check = Checks[first(v)]
            /\ (v # {} /\ Checks[first(v)] # "validate") => ~ret.called
            /\ (call.config.given /\ call.config.maxSize = call.file.size) =>
                   ret.check # "maxSize"
            /\ (call.config.given /\ call.config.minSize = call.file.size) =>
                   ret.check # "minSize"

\* a file of an allowed type and of exactly maxSize passed the types and the
\* size bounds and failed the predicate, the last check
C27_Witness ==
    /\ returned("validateFile")
    /\ call.config.given
    /\ call.config.allowedTypes # <<>>
    /\ call.config.maxSize = call.file.size
    /\ call.config.validate = "message"
    /\ ret.type = "invalid-file" /\ ret.check = "validate" /\ ret.called

----------------------------------------------------------------------------
(* The cancellation token, under SpecSelector *)

C24_State ==
    /\ cancelAt = NotCancelled => ~isCancelled(World, DriverToken)
    /\ isCancelled(cancel(World, DriverToken), DriverToken)
    /\ cancel(cancel(World, DriverToken), DriverToken) = cancel(World, DriverToken)

C24_Step == isCancelled(World, DriverToken) => cancelled'[DriverToken]

\* C24: the token of an invocation is not cancelled until cancel() is called,
\* cancel() makes isCancelled() true, a second cancel() changes nothing, and no
\* step of the library (a file processed, a run ended, a retry, a new change
\* event in selector mode) makes a cancelled token not cancelled again.
C24_TokenStaysCancelled == []C24_State /\ [][C24_Step]_vars

\* the run of a change event resolved its file; the token, cancelled since, made
\* the run of the next change event end at once with the cancellation error
C24_Witness ==
    /\ changes = 2
    /\ pc = "done"
    /\ drvResult = "cancelled"
    /\ results = <<>>
    /\ Len(sess) = 1 /\ sess[1].outcome = "resolved"
    /\ \E i \in entries("last") : TRUE

----------------------------------------------------------------------------
(* The merge of chunkFile, under SpecMerge *)

\* C30: chunkFile puts every chunk a task returned at the position of the result
\* that is the chunk's own index, so that r[i].index = i for every resolved
\* result r and every i, also when a unit lists the chunks of its range in
\* another order.
C30_PlacedByOwnIndex ==
    \A s \in 1..Len(sess) :
        sess[s].outcome = "resolved" =>
            \A p \in 1..Len(sess[s].result) : sess[s].result[p].index = p - 1

----------------------------------------------------------------------------
(* The units of the pool and their requests, under Spec *)

\* C31: whatever the order of the answers and of the error events of the units,
\* a unit is not sent a request while a request posted to it before is still
\* unanswered: every unit has one outstanding request at most.
C31_OneOutstandingRequest ==
    \A u \in 1..Len(inbox) : Len(inbox[u]) <= 1

answeredFor(t) == \E u \in 1..Len(inbox) : inbox[u] # <<>> /\ Head(inbox[u]) = t

C32_Step ==
    \A t \in 1..Len(tasks) :
        tasks'[t].resolveCalls > tasks[t].resolveCalls => answeredFor(t)

\* C32: the resolve callback of a task only ever gets the payload the unit made
\* for the request of that same task; no order of submissions, answers and
\* error events makes the pool hand the answer to one task's request to
\* another task.
C32_AnswerReachesItsTask == [][C32_Step]_vars

held(t) == {u \in 1..Len(workers) : workers[u].currentTask = t}
inQueue(t) == \E i \in 1..Len(taskQueue) : taskQueue[i] = t
busy == {u \in 1..Len(workers) : workers[u].isBusy}

\* C33: in every reachable state of the pool a unit is Busy iff it holds a
\* current task; a task is held by one unit at most and is not in the queue
\* while held; getIdleWorkerCount() plus the number of Busy units is
\* getWorkerCount(); and the queue is non-empty only if every unit is Busy.
C33_PoolInvariant ==
    /\ \A u \in 1..Len(workers) : workers[u].isBusy <=> workers[u].currentTask # NoTask
    /\ \A t \in 1..Len(tasks) :
          /\ Cardinality(held(t)) <= 1
          /\ ~(held(t) # {} /\ inQueue(t))
    /\ getIdleWorkerCount(World) + Cardinality(busy) = getWorkerCount(World)
    /\ taskQueue # <<>> => busy = 1..Len(workers)

\* a task waits in the queue of a pool with a unit, every unit is Busy, and a
\* unit released before has taken the task that was the oldest in the queue
C33_Witness ==
    /\ Len(workers) >= 1
    /\ taskQueue # <<>>
    /\ busy = 1..Len(workers)
    /\ \E t \in 1..Len(tasks), u \in 1..Len(workers) :
          /\ tasks[t].resolveCalls = 1
          /\ workers[u].currentTask > t
          /\ \A q \in 1..Len(taskQueue) : taskQueue[q] > workers[u].currentTask

tokenOf(t) == sess[tasks[t].sess].tok

C34_Step ==
    \A t \in 1..Len(tasks) :
        (inQueue(t) /\ cancelled[tokenOf(t)]) =>
            /\ tasks'[t].posted = tasks[t].posted
            /\ \A u \in 1..Len(workers') : workers'[u].currentTask # t

\* C34: a task that still waits in the queue of the pool when the token of its
\* session is cancelled is not handed to a unit afterwards; the cancellation is
\* checked before a task is assigned.
C34_CancelledTaskNotAssigned == [][C34_Step]_vars

----------------------------------------------------------------------------
(* Cancellation and submission, under SpecDrivers *)

C35_Step == cancelled[DriverToken] => Len(tasks') = Len(tasks)

\* C35: once cancel() has been called, the invocation that owns the token
\* submits no task to the pool any more: not for the file it is at, not for the
\* later files of the list, not in the attempts withRetry repeats.
C35_NoSubmissionAfterCancel == [][C35_Step]_vars

\* cancelled while the first of two files was at work, with a retry config:
\* the attempt withRetry repeated submitted nothing and the driver stopped
C35_Witness ==
    /\ cancelled[DriverToken]
    /\ pc = "done"
    /\ opts.retry # Undefined /\ attempt >= 1
    /\ fi < Len(files)
    /\ Len(tasks) >= 1
    /\ sess[Len(sess)].outcome = "rejected"
    /\ sess[Len(sess)].submitted = 0

----------------------------------------------------------------------------
(* Tasks the pool drops, under SpecPool *)

\* a task no callback of which was invoked and that no unit holds nor the queue
dropped(t) == outstanding(World, t) /\ held(t) = {} /\ ~inQueue(t)

terminated ==
    /\ Len(poolOps') > Len(poolOps)
    /\ poolOps'[Len(poolOps')].op \in {"terminateAll", "resetWorkerPool"}

C36_State ==
    \A t \in 1..Len(tasks) : dropped(t) => sess[tasks[t].sess].outcome = "pending"

C36_Step ==
    \A t \in 1..Len(tasks) :
        /\ (terminated /\ outstanding(World, t)) =>
               /\ tasks'[t].resolveCalls = 0 /\ tasks'[t].rejectCalls = 0
               /\ \A u \in 1..Len(workers') : workers'[u].currentTask # t
               /\ \A q \in 1..Len(taskQueue') : taskQueue'[q] # t
        /\ dropped(t) =>
               /\ tasks'[t] = tasks[t]
               /\ sess'[tasks[t].sess].outcome = "pending"
               /\ \A u \in 1..Len(workers') : workers'[u].currentTask # t
               /\ \A q \in 1..Len(taskQueue') : taskQueue'[q] # t

\* C36: the tasks that are queued or in flight when terminateAll() or
\* resetWorkerPool() is called have neither of their callbacks invoked
\* afterwards: they are dropped, not rejected, and a chunkFile promise that
\* waits on such a task never settles.
C36_DroppedTasksNeverSettle == []C36_State /\ [][C36_Step]_vars

\* a task was dropped, its promise is pending, and a task submitted to the
\* pool afterwards has been answered
C36_Witness ==
    \E t, t2 \in 1..Len(tasks) :
        /\ t < t2
        /\ dropped(t)
        /\ sess[tasks[t].sess].outcome = "pending"
        /\ tasks[t2].resolveCalls = 1

----------------------------------------------------------------------------
(* The ranges chunkFile submits, under SpecCalls *)

\* ceil(n / c), and range i of n chunks cut for c workers
ceilDiv(n, c) == CHOOSE k \in 0..n : k * c >= n /\ (k - 1) * c < n
rangeOf(i, n, c) ==
    [startIndex |-> i * ceilDiv(n, c),
     endIndex |-> IF (i + 1) * ceilDiv(n, c) < n THEN (i + 1) * ceilDiv(n, c) ELSE n]

\* C37: for every chunkCount >= 1 and workerCount >= 1 the ranges chunkFile
\* submits are [i*k, min((i+1)*k, chunkCount)) with k = ceil(chunkCount /
\* workerCount) for just the i in 0..workerCount-1 whose range is not empty:
\* they are disjoint and contiguous, cover [0, chunkCount), are workerCount at
\* most, come in ascending order, and none is empty.
C37_Ranges ==
    returned("taskRanges") =>
        LET n == call.chunkCount
            c == call.workerCount
            R == ret.ranges
            nonEmpty == {i \in 0..c - 1 : rangeOf(i, n, c).startIndex < rangeOf(i, n, c).endIndex}
        IN  /\ {R[j] : j \in 1..Len(R)} = {rangeOf(i, n, c) : i \in nonEmpty}
            /\ Len(R) = Cardinality(nonEmpty)
            /\ Len(R) >= 1 /\ Len(R) <= c
            /\ \A j \in 1..Len(R) : R[j].startIndex < R[j].endIndex
            /\ R[1].startIndex = 0
            /\ \A j \in 1..Len(R) - 1 : R[j].endIndex = R[j + 1].startIndex
            /\ R[Len(R)].endIndex = n

\* four chunks for three workers: two ranges of two chunks, the third range,
\* which would start at the end, is not submitted
C37_Witness ==
    /\ returned("taskRanges")
    /\ call.chunkCount = 4 /\ call.workerCount = 3
    /\ ret.ranges = <<[startIndex |-> 0, endIndex |-> 2], [startIndex |-> 2, endIndex |-> 4]>>

----------------------------------------------------------------------------
(* The answers of the units, under Spec *)

\* the answers a unit may post for task t: {success: true, data}, {success:
\* false, error}, the bare array, a value that is neither
answers(t) ==
    LET S == sess[tasks[t].sess]
        chunks == workerChunks(files[S.file].size, S.cs, tasks[t].startIndex,
                               tasks[t].endIndex)
    IN  {[kind |-> "ok", error |-> "none", chunks |-> chunks],
         [kind |-> "fail", error |-> "hash-error", chunks |-> <<>>],
         [kind |-> "array", error |-> "none", chunks |-> chunks],
         [kind |-> "other", error |-> "none", chunks |-> <<>>]}

\* the session of t takes results: it has no error and its token is not cancelled
takes(t) ==
    /\ ~sess[tasks[t].sess].hasError
    /\ ~cancelled[sess[tasks[t].sess].tok]

answered(u, data) ==
    LET t == workers[u].currentTask
        w == handleWorkerMessage(World, u, data)
        s == tasks[t].sess
    IN  /\ data.kind \in {"ok", "array", "other"} =>
              w.tasks[t].resolveCalls = tasks[t].resolveCalls + 1
        /\ data.kind \in {"ok", "array"} =>
              /\ w.tasks[t].rejectCalls = tasks[t].rejectCalls
              /\ takes(t) => w.sess[s].tdata[tasks[t].slot] = data.chunks
        /\ data.kind = "fail" =>
              /\ w.tasks[t].resolveCalls = tasks[t].resolveCalls
              /\ w.tasks[t].rejectCalls = tasks[t].rejectCalls + 1
              /\ w.tasks[t].unitError = data.error
        /\ w.workers[u].currentTask # t
        /\ taskQueue = <<>> => w.workers[u] = Idle
        /\ w.workers[u] # Idle =>
              w.workers[u].currentTask \in {taskQueue[q] : q \in 1..Len(taskQueue)}

\* C38: an answer {success: true, data} resolves the current task of the unit
\* with data; {success: false, error} rejects it with an error that carries
\* what error says; an answer that is no object with a success field (the bare
\* array) resolves the task with the answer itself; an answer for a unit with
\* no current task is ignored; in every other case the unit is released after.
C38_AnswerShapes ==
    \A u \in 1..Len(workers) :
        IF workers[u].currentTask = NoTask
        THEN \A kind \in {"ok", "fail", "array", "other"} :
                 handleWorkerMessage(World, u, [kind |-> kind, error |-> "none",
                                                chunks |-> <<>>]) = World
        ELSE \A data \in answers(workers[u].currentTask) : answered(u, data)

\* a unit answered with chunks: its task was resolved with them, the promise
\* of chunkFile resolved, and every unit is Idle
C38_Witness ==
    \E t \in 1..Len(tasks) :
        /\ tasks[t].resolveCalls = 1 /\ tasks[t].rejectCalls = 0
        /\ sess[tasks[t].sess].outcome = "resolved"
        /\ sess[tasks[t].sess].tdata[tasks[t].slot] # <<>>
        /\ \A u \in 1..Len(workers) : workers[u] = Idle

----------------------------------------------------------------------------
(* Failures of the Chunk Builder in stream mode, under SpecDrivers *)

\* C39: in stream mode, when the Chunk Builder fails on a chunk with kind K
\* (file-read-error or hash-error), the UploadFailure chunkFileStream gives to
\* the error callback and throws, and the one the stream driver reports then,
\* has the kind K.
C39_StreamKeepsBuilderKind ==
    (mode = "stream" /\ pc = "done" /\ stream.failure # "none") =>
        /\ drvResult = stream.failure
        /\ \A i \in entries("error") :
               cbLog[i].file = fi => cbLog[i].kind = stream.failure

----------------------------------------------------------------------------
(* Chunks of equal content, under SpecCache *)

\* the byte at offset i of the file SpecCache cuts in chunks of one byte: the
\* chunks at even offsets have one content, those at odd offsets another
byteAt(i) == i % 2

\* the memo holds the buffer of a chunk built before whose content is that of
\* chunk i; the buffer with key k is the one read for chunk k - 1
memoHasContentOf(i) ==
    \E j \in 1..Len(hashMap.keys) : byteAt(hashMap.keys[j] - 1) = byteAt(i)

C40_Step ==
    (/\ call'.fn = "createChunk"
     /\ ret'.how = "resolve"
     /\ memoHasContentOf(call'.index)) =>
        /\ hashMap'.fresh = hashMap.fresh
        /\ getCacheSize(hashMap') = getCacheSize(hashMap)

\* C40: building two chunks of identical bytes computes one digest and leaves
\* one memo entry: the second build is a memo hit, no digest is computed for it
\* and getCacheSize() does not grow with it.
C40_EqualContentOneEntry == [][C40_Step]_vars

====
